---- MODULE Spec2Model ----
(***************************************************************************)
(* Exit-execution engine of lasersell (src/src/app/mod.rs): the session    *)
(* store, the stream-event dispatcher, the single-flight auto-sell         *)
(* executor with its refresh channel, and the manual sell trigger.         *)
(*                                                                         *)
(* One dispatcher (the event loop of `run`) handles stream events and user *)
(* commands one at a time; every spawned task (tokio::spawn) is a separate *)
(* process whose steps interleave with the dispatcher's handlers.  A step  *)
(* of a task runs from one suspension point or lock acquisition to the     *)
(* next.                                                                   *)
(***************************************************************************)
EXTENDS Integers, Sequences, FiniteSets, TLC

\* ------------------------------------------------------------------ bounds
\* Number of stream events and user commands the dispatcher handles.
MaxEvents == 3
\* Number of tasks (auto-sell executors and manual sells) ever spawned.
MaxTasks == 2
\* Longest retry budget of the retry-sequence specification (RetrySpec).
MaxRetriesBound == 14

\* ------------------------------------------------------- Option<T>, Result
None == <<>>
Some(x) == <<x>>
IsSome(o) == Len(o) = 1
IsNone(o) == Len(o) = 0
Unwrap(o) == o[1]
\* An or_else that never falls back.
OrElse_NoFallback(o, other) == o
\* Option::or_else
OrElse(o, other) == IF IsSome(o) THEN o ELSE other

Min(a, b) == IF a <= b THEN a ELSE b

\* ---------------------------------------------------------------- pubkeys
\* Strings that decode as a 32-byte base58 public key.
Pubkeys == {"MintA", "MintB", "TokenProgram", "USD1", "WSOL", "Pool"}
\* A parse that falls back to a fixed key, as unwrap_or_default would.
Pubkey_from_str_OrDefault(s) == IF s \in Pubkeys THEN Some(s) ELSE Some("MintB")
\* Pubkey::from_str: Ok(key) for a well-formed key, Err otherwise.
Pubkey_from_str(s) == IF s \in Pubkeys THEN Some(s) ELSE None
Mints == {"MintA", "MintB"}
\* Mint strings a stream event may carry; the last one does not parse.
MintStrings == Mints \cup {"not-a-pubkey"}
usd1_mint == "USD1"

\* ------------------------------------------------------------- SellConfig
default_slippage_pad == 2000
default_slippage_retry_bump_first == 20
default_slippage_retry_bump_next == 40
default_slippage_max == 2500
default_confirm_timeout_sec == 10
default_max_retries == 2
U16Max == 65535
AUTOSELL_REFRESH_TIMEOUT_MS == 1500

SellConfigDefault ==
    [slippage_pad_bps |-> default_slippage_pad,
     slippage_retry_bump_bps_first |-> default_slippage_retry_bump_first,
     slippage_retry_bump_bps_next |-> default_slippage_retry_bump_next,
     slippage_max_bps |-> default_slippage_max,
     confirm_timeout_sec |-> default_confirm_timeout_sec,
     max_retries |-> default_max_retries]

\* A second configuration a user may apply: one retry, and a cap that the
\* first bump already reaches.
SellConfigTight ==
    [slippage_pad_bps |-> 100,
     slippage_retry_bump_bps_first |-> 30,
     slippage_retry_bump_bps_next |-> 50,
     slippage_max_bps |-> 120,
     confirm_timeout_sec |-> 5,
     max_retries |-> 1]

SellConfigs == {SellConfigDefault, SellConfigTight}

\* StrategyConfig: the one the engine starts with and one a user may apply;
\* a StrategyAmount is a percentage.
StrategyInitial ==
    [target_profit |-> [percent |-> 6], stop_loss |-> [percent |-> 10],
     deadline_timeout_sec |-> 45]
StrategyApplied ==
    [target_profit |-> [percent |-> 9], stop_loss |-> [percent |-> 4],
     deadline_timeout_sec |-> 0]
StrategyConfigs == {StrategyInitial, StrategyApplied}

\* A configuration whose bumps run into the top of u16, and one whose
\* starting slippage lies above its cap.
SellConfigSaturating ==
    [slippage_pad_bps |-> 65000,
     slippage_retry_bump_bps_first |-> 500,
     slippage_retry_bump_bps_next |-> 600,
     slippage_max_bps |-> U16Max,
     confirm_timeout_sec |-> 10,
     max_retries |-> 3]
SellConfigPadAboveMax ==
    [slippage_pad_bps |-> 3000,
     slippage_retry_bump_bps_first |-> 10,
     slippage_retry_bump_bps_next |-> 10,
     slippage_max_bps |-> 2500,
     confirm_timeout_sec |-> 10,
     max_retries |-> 2]

\* The configurations of the retry-sequence specification: the default one,
\* the default one with no retry and with a retry budget of MaxRetriesBound,
\* and the three above.
RetryConfigs ==
    { [SellConfigDefault EXCEPT !.max_retries = n]
      : n \in {0, default_max_retries, MaxRetriesBound} }
    \cup {SellConfigTight, SellConfigSaturating, SellConfigPadAboveMax}

\* ------------------------------------------------------- unsigned payloads
\* An unsigned transaction payload is a string, modelled as its sequence of
\* characters; " " stands for any whitespace character.
IsSpace(c) == c = " "
RECURSIVE TrimStart(_)
TrimStart(s) == IF s # <<>> /\ IsSpace(Head(s)) THEN TrimStart(Tail(s)) ELSE s
RECURSIVE TrimEnd(_)
TrimEnd(s) ==
    IF s # <<>> /\ IsSpace(s[Len(s)]) THEN TrimEnd(SubSeq(s, 1, Len(s) - 1)) ELSE s
\* str::trim
Trim(s) == TrimEnd(TrimStart(s))

TxA == <<"A">>
TxBPadded == <<" ", "B">>
TxBlank == <<" ">>
TxPayloads == {TxA, TxBPadded, TxBlank}

\* --------------------------------------------------------- market context
MarketTypes == {"PumpFun", "MeteoraDbc", "PumpSwap", "MeteoraDammV2",
                "RaydiumLaunchpad", "RaydiumCpmm"}
\* Market kinds whose context carries a quote mint.
QuoteMarketTypes == {"MeteoraDbc", "RaydiumLaunchpad", "RaydiumCpmm"}

\* MarketContextMsg: the kind, and the kind's own sub-message when present
\* (its pool and, for the kinds that have one, its quote mint, as strings).
MsgPumpFun == [market_type |-> "PumpFun", inner |-> None]
MsgDbcUsd1 == [market_type |-> "MeteoraDbc",
               inner |-> Some([pool |-> "Pool", quote_mint |-> "USD1"])]
MsgDbcMissing == [market_type |-> "MeteoraDbc", inner |-> None]

\* market_context_from_msg: Some(context) on success, None for Err.
market_context_from_msg(msg) ==
    IF msg.market_type = "PumpFun"
    THEN Some([market_type |-> "PumpFun", pool |-> None, quote_mint |-> None])
    ELSE IF IsNone(msg.inner)
    THEN None
    ELSE LET inner == Unwrap(msg.inner)
             pool == Pubkey_from_str(inner.pool)
             quote == Pubkey_from_str(inner.quote_mint)
         IN  IF IsNone(pool) THEN None
             ELSE IF msg.market_type \in QuoteMarketTypes
             THEN IF IsNone(quote) THEN None
                  ELSE Some([market_type |-> msg.market_type,
                             pool |-> pool, quote_mint |-> quote])
             ELSE Some([market_type |-> msg.market_type,
                        pool |-> pool, quote_mint |-> None])

\* ----------------------------------------------------------------- inputs
PositionIds == {1, 2}
TokenAmounts == {0, 7}
\* token_program hints: absent, a well-formed program id, an unparsable one.
TokenProgramHints == {None, Some("TokenProgram"), Some("garbage")}
Reasons == {"profit", "deadline"}
MarketContextMsgs == {None, Some(MsgPumpFun), Some(MsgDbcUsd1), Some(MsgDbcMissing)}

\* ------------------------------------------------------------------ state
VARIABLES
    paused,                \* AppEngine.paused
    runtime_sell,          \* AppEngine.runtime_sell
    runtime_strategy,      \* AppEngine.runtime_strategy
    stream_open,           \* the task spawned by StreamClient::connect is running
    cmd_rx_open,           \* cmd_rx of `run` is Some
    stream_commands,       \* StreamCommands queued on StreamHandle.cmd_tx
    market_contexts,       \* AppEngine.market_contexts: mint -> Option<MarketContext>
    stream_states,         \* AppEngine.stream_states: mint -> Option<stream state>
    position_snapshots,    \* AppEngine.position_snapshots: mint -> Option<PositionSnapshot>
    in_flight_auto_sells,  \* AppEngine.in_flight_auto_sells: position id -> Option<sender>
    tasks,                 \* every task spawned so far, in spawn order
    loop_running,          \* the loop of `run` has not ended
    last_event,            \* the event or command the dispatcher handled last
    emitted,               \* the notifications that handler emitted itself
    events_handled,        \* how many events and commands were handled
    event_budget           \* how many the dispatcher handles in this run at most

store == <<market_contexts, stream_states, position_snapshots>>
dispatcher == <<loop_running, last_event, emitted, events_handled, event_budget>>
channels == <<stream_open, cmd_rx_open, stream_commands>>
vars == <<paused, runtime_sell, runtime_strategy, channels, store, in_flight_auto_sells,
          tasks, dispatcher>>

TaskIds == 1..Len(tasks)

\* --------------------------------------------------- AppEvent notifications
\* The notifications handed to `emit` by the engine's own code.  The
\* AppEvent::LogLine copies that the tracing layer makes of warn! and info!
\* records are left out.
SessionError(mint, error) == [type |-> "SessionError", mint |-> mint, error |-> error]
SessionStarted(mint, program) ==
    [type |-> "SessionStarted", mint |-> mint, token_program |-> program]
SessionClosed(mint) == [type |-> "SessionClosed", mint |-> mint]
SessionStreamState(mint, state) ==
    [type |-> "SessionStreamState", mint |-> mint, stream_state |-> state]
PositionTokensUpdated(mint, tokens) ==
    [type |-> "PositionTokensUpdated", mint |-> mint, tokens |-> tokens]
MintDetected(mint) == [type |-> "MintDetected", mint |-> mint]
SellScheduled(mint, reason) == [type |-> "SellScheduled", mint |-> mint, reason |-> reason]
SellAttempt(mint, attempt, slippage_bps) ==
    [type |-> "SellAttempt", mint |-> mint, attempt |-> attempt,
     slippage_bps |-> slippage_bps]
SellRetry(mint, attempt, phase) ==
    [type |-> "SellRetry", mint |-> mint, attempt |-> attempt, phase |-> phase]
SellComplete(mint, reason, slippage_bps) ==
    [type |-> "SellComplete", mint |-> mint, reason |-> reason,
     slippage_bps |-> slippage_bps]
PauseState(p) == [type |-> "PauseState", paused |-> p]
SolanaWsStatus(connected) == [type |-> "SolanaWsStatus", connected |-> connected]
Heartbeat == [type |-> "Heartbeat"]

\* An error value: what failed, and the position id and attempt count its
\* message names (0 where the message names none).
Error(kind, position_id, attempts) ==
    [kind |-> kind, position_id |-> position_id, attempts |-> attempts]

\* ------------------------------------------------------------ pure helpers
\* A canonical_sell_reason that passes the server's reason through.
canonical_sell_reason_Verbatim(reason) == reason

\* The match without the "deadline" pattern.
canonical_sell_reason_NoDeadline(reason) ==
    CASE reason \in {"target", "profit", "target_profit"} -> "target"
      [] reason = "stop_loss" -> "stop_loss"
      [] reason \in {"timeout", "deadline_timeout"} -> "timeout"
      [] reason \in {"manual", "manual_sell"} -> "manual"
      [] OTHER -> reason

canonical_sell_reason(reason) ==
    CASE reason \in {"target", "profit", "target_profit"} -> "target"
      [] reason = "stop_loss" -> "stop_loss"
      [] reason \in {"timeout", "deadline_timeout", "deadline"} -> "timeout"
      [] reason \in {"manual", "manual_sell"} -> "manual"
      [] OTHER -> reason

\* u16::wrapping_add in place of the saturating one.
WrappingAddU16(a, b) == (a + b) % (U16Max + 1)

\* u16::saturating_add
SaturatingAddU16(a, b) == Min(a + b, U16Max)

\* A bump that forgets the clamp to slippage_max_bps.
bumped_slippage_bps_Unclamped(current, refreshes_used, cfg) ==
    SaturatingAddU16(current, IF refreshes_used = 0
                              THEN cfg.slippage_retry_bump_bps_first
                              ELSE cfg.slippage_retry_bump_bps_next)

\* A bump that clamps the current value before it adds.
bumped_slippage_bps_ClampFirst(current, refreshes_used, cfg) ==
    SaturatingAddU16(Min(current, cfg.slippage_max_bps),
                     IF refreshes_used = 0
                     THEN cfg.slippage_retry_bump_bps_first
                     ELSE cfg.slippage_retry_bump_bps_next)

\* bumped_slippage_bps
bumped_slippage_bps(current, refreshes_used, cfg) ==
    LET bump == IF refreshes_used = 0
                THEN cfg.slippage_retry_bump_bps_first
                ELSE cfg.slippage_retry_bump_bps_next
    IN  Min(SaturatingAddU16(current, bump), cfg.slippage_max_bps)

\* classify_sell_retry_phase: a confirmation timeout or an on-chain failure
\* is "tx_confirm", everything else (signing, submission) "tx_send".
classify_sell_retry_phase(err) ==
    IF err \in {"ConfirmTimeout", "TxFailed"} THEN "tx_confirm" ELSE "tx_send"

\* A resolution that asks the cluster whatever the hint is.
resolve_token_program_AlwaysLooksUp(token_program_hint, lookup) == lookup

\* resolve_token_program: a parseable hint is used as is; otherwise the
\* owner of the mint account is looked up, and `lookup` is that call's
\* outcome (None when it fails).
resolve_token_program(token_program_hint, lookup) ==
    IF IsSome(token_program_hint) /\ IsSome(Pubkey_from_str(Unwrap(token_program_hint)))
    THEN Pubkey_from_str(Unwrap(token_program_hint))
    ELSE lookup

\* ------------------------------------------------------------ session store
\* An update that drops the stored context when the new one does not parse.
apply_market_context_update_ClearsOnError(mint, market_context, contexts) ==
    IF IsNone(market_context)
    THEN [ok |-> TRUE, context |-> None, contexts |-> contexts]
    ELSE LET context == market_context_from_msg(Unwrap(market_context))
         IN  IF IsNone(context)
             THEN [ok |-> FALSE, context |-> None,
                   contexts |-> [contexts EXCEPT ![mint] = None]]
             ELSE [ok |-> TRUE, context |-> context,
                   contexts |-> [contexts EXCEPT ![mint] = context]]

\* apply_market_context_update: [ok, context, contexts]; on a parse error
\* the map is returned as it was.
apply_market_context_update(mint, market_context, contexts) ==
    IF IsNone(market_context)
    THEN [ok |-> TRUE, context |-> None, contexts |-> contexts]
    ELSE LET context == market_context_from_msg(Unwrap(market_context))
         IN  IF IsNone(context)
             THEN [ok |-> FALSE, context |-> None, contexts |-> contexts]
             ELSE [ok |-> TRUE, context |-> context,
                   contexts |-> [contexts EXCEPT ![mint] = context]]

\* InMemoryMarketStreamState::new
NewStreamState(market_type) == [market_type |-> market_type, position_tokens |-> None]

\* An upsert that allocates a new state whenever it is given a context.
upsert_market_stream_state_AlwaysFresh(states, mint, market_context, position_tokens) ==
    LET state == IF IsSome(market_context)
                 THEN Some(NewStreamState(Unwrap(market_context).market_type))
                 ELSE states[mint]
    IN  IF IsNone(state)
        THEN [states |-> states, emitted |-> <<>>]
        ELSE LET updated == IF IsSome(position_tokens)
                            THEN [Unwrap(state) EXCEPT !.position_tokens = position_tokens]
                            ELSE Unwrap(state)
             IN  [states |-> [states EXCEPT ![mint] = Some(updated)],
                  emitted |-> <<SessionStreamState(mint, updated)>>]

\* upsert_market_stream_state: [states, emitted].  A stream state is its
\* field values: a state that is kept keeps them all, a fresh one has none
\* of them.
upsert_market_stream_state(states, mint, market_context, position_tokens) ==
    LET replace == IF IsSome(states[mint])
                   THEN Unwrap(states[mint]).market_type # Unwrap(market_context).market_type
                   ELSE TRUE
        state == IF IsSome(market_context)
                 THEN IF replace
                      THEN Some(NewStreamState(Unwrap(market_context).market_type))
                      ELSE states[mint]
                 ELSE states[mint]
    IN  IF IsNone(state)
        THEN [states |-> states, emitted |-> <<>>]
        ELSE LET updated == IF IsSome(position_tokens)
                            THEN [Unwrap(state) EXCEPT !.position_tokens = position_tokens]
                            ELSE Unwrap(state)
             IN  [states |-> [states EXCEPT ![mint] = Some(updated)],
                  emitted |-> <<SessionStreamState(mint, updated)>>]

PositionSnapshot(position_id, token_program, tokens, market_context) ==
    [position_id |-> position_id, token_program |-> token_program,
     tokens |-> tokens, market_context |-> market_context]

\* ------------------------------------------------------------------ tasks
\* A spawned task.  kind "auto" is the executor spawned by
\* process_exit_signal_with_tx, kind "manual" the task spawned by
\* trigger_manual_sell.  refresh_rx is the queue of the executor's refresh
\* channel; its sender is the registry entry Some(i) of task i, and the
\* channel is closed once no such entry is left.  log is what the task has
\* emitted, requests the slippage of every RequestExitSignal it has sent
\* over the stream, build_requests every request it has made to the
\* build-transaction API, signed every transaction it has signed and sent,
\* spawned_under the runtime SellConfig at the time tokio::spawn was called.
NewTask(kind, mint, e) ==
    [kind |-> kind, pc |-> "resolve", position_id |-> e.position_id, mint |-> mint,
     token_program |-> e.token_program, position_tokens |-> e.tokens,
     reason |-> e.reason, unsigned_tx_b64 |-> e.unsigned_tx_b64, sell_cfg |-> None,
     attempt |-> 0, refreshes_used |-> 0, slippage_bps |-> 0,
     market_context |-> None, refresh_rx |-> <<>>, log |-> <<>>, requests |-> <<>>,
     build_requests |-> <<>>, signed |-> <<>>, spawned_under |-> runtime_sell]

\* The executor's refresh receiver has not been dropped.  The receiver is
\* moved into execute_auto_sell_with_refresh and dropped when that returns;
\* a task that fails before the call (attempt 0) keeps it until it ends.
ReceiverAlive(t) ==
    /\ t.kind = "auto"
    /\ \/ t.pc \in {"resolve", "sending", "wait_refresh"}
       \/ t.pc = "unregister" /\ t.attempt = 0

\* The task is spawned and has not terminated.
Running(t) == t.pc # "done"

\* UnboundedSender::send: enqueues while the receiver lives; the error of
\* sending to a dropped receiver is ignored by the caller.
ChannelSend(t, payload) ==
    IF ReceiverAlive(t) THEN [t EXCEPT !.refresh_rx = Append(@, payload)] ELSE t

Emit(t, notifications) == [t EXCEPT !.log = @ \o notifications]

\* ------------------------------------------------------- stream events
\* A StreamEvent or AppCommand as one record: the fields a variant does not
\* have are left at the values of Blank.
Blank(type) ==
    [type |-> type, position_id |-> 0, mint |-> "", token_program |-> None,
     tokens |-> 0, reason |-> "", market_context |-> None, unsigned_tx_b64 |-> <<>>,
     sell |-> None, strategy |-> None, connected |-> FALSE]

Handled(e, notifications) ==
    /\ last_event' = e
    /\ emitted' = notifications
    /\ events_handled' = events_handled + 1
    /\ UNCHANGED event_budget

\* A loop that awaits the submission of every executor before it takes the
\* next event.
CanHandle_AwaitsExecutors ==
    /\ loop_running /\ events_handled < event_budget
    /\ \A i \in DOMAIN tasks : tasks[i].pc # "sending"

CanHandle == loop_running /\ events_handled < event_budget

\* The command branch of the select! of `run`: it is pending for good once
\* cmd_rx is None.
CanHandleCommand == CanHandle /\ cmd_rx_open

\* The registry lookup of process_exit_signal_with_tx: the payload goes to
\* the executor registered for the position, or a new executor is spawned
\* and registered.
ForwardOrSpawn(e, mint_pubkey) ==
    IF IsSome(in_flight_auto_sells[e.position_id])
    THEN LET i == Unwrap(in_flight_auto_sells[e.position_id])
         IN  /\ tasks' = [tasks EXCEPT ![i] = ChannelSend(@, e.unsigned_tx_b64)]
             /\ UNCHANGED in_flight_auto_sells
    ELSE /\ Len(tasks) < MaxTasks
         /\ tasks' = Append(tasks, NewTask("auto", mint_pubkey, e))
         /\ in_flight_auto_sells' =
                [in_flight_auto_sells EXCEPT ![e.position_id] = Some(Len(tasks) + 1)]

\* A dispatch that never looks at the pause flag.
ScheduleAutoSell_IgnoresPause(e, mint_pubkey) == ForwardOrSpawn(e, mint_pubkey)

\* process_exit_signal_with_tx after the store update: nothing more is done
\* while paused.
ScheduleAutoSell(e, mint_pubkey) ==
    IF paused
    THEN UNCHANGED <<in_flight_auto_sells, tasks>>
    ELSE ForwardOrSpawn(e, mint_pubkey)

\* process_exit_signal_with_tx
ExitSignalWithTx(e) ==
    LET position_id == e.position_id
        token_program == e.token_program
        position_tokens == e.tokens
        reason == e.reason
        market_context_msg == e.market_context
        parsed_mint == Pubkey_from_str(e.mint)
    IN
    /\ CanHandle
    /\ UNCHANGED <<paused, runtime_sell, runtime_strategy, channels, loop_running>>
    /\ IF IsNone(parsed_mint)
       THEN /\ Handled(e, <<>>)
            /\ UNCHANGED <<store, in_flight_auto_sells, tasks>>
       ELSE LET mint_pubkey == Unwrap(parsed_mint)
                upd == apply_market_context_update(mint_pubkey, market_context_msg,
                                                   market_contexts)
                parsed_context == upd.context
                context_for_state == OrElse(parsed_context, upd.contexts[mint_pubkey])
                ups == upsert_market_stream_state(stream_states, mint_pubkey,
                                                  context_for_state, Some(position_tokens))
                snapshot == PositionSnapshot(position_id, token_program, position_tokens,
                                OrElse(parsed_context, upd.contexts[mint_pubkey]))
                parse_error == IF upd.ok THEN <<>>
                               ELSE <<SessionError(mint_pubkey,
                                                   Error("market_context", 0, 0))>>
            IN
            /\ market_contexts' = upd.contexts
            /\ stream_states' = ups.states
            /\ position_snapshots' =
                   [position_snapshots EXCEPT ![mint_pubkey] = Some(snapshot)]
            /\ Handled(e, parse_error \o ups.emitted)
            /\ ScheduleAutoSell(e, mint_pubkey)

\* The test of handle_position_closed without the sentinel id 0.
should_remove_NoSentinel(snapshot, position_id) ==
    IF IsSome(snapshot) THEN Unwrap(snapshot).position_id = position_id ELSE FALSE

\* should_remove of handle_position_closed: the snapshot of the mint, if
\* any, carries the closed position id or the sentinel id 0.
should_remove(snapshot, position_id) ==
    IF IsSome(snapshot)
    THEN \/ Unwrap(snapshot).position_id = position_id
         \/ Unwrap(snapshot).position_id = 0
    ELSE FALSE

\* AppEngine::handle_position_closed
PositionClosed(e) ==
    LET position_id == e.position_id
        parsed_mint == Pubkey_from_str(e.mint)
    IN
    /\ CanHandle
    /\ UNCHANGED <<paused, runtime_sell, runtime_strategy, channels, loop_running, tasks>>
    /\ IF IsNone(parsed_mint)
       THEN /\ Handled(e, <<>>)
            /\ UNCHANGED <<store, in_flight_auto_sells>>
       ELSE LET mint == Unwrap(parsed_mint)
            IN
            /\ position_snapshots' =
                   IF should_remove(position_snapshots[mint], position_id) THEN [position_snapshots EXCEPT ![mint] = None]
                   ELSE position_snapshots
            /\ market_contexts' = [market_contexts EXCEPT ![mint] = None]
            /\ stream_states' = [stream_states EXCEPT ![mint] = None]
            /\ in_flight_auto_sells' = [in_flight_auto_sells EXCEPT ![position_id] = None]
            /\ Handled(e, <<SessionClosed(mint)>>)

\* AppEngine::handle_user_command, TogglePauseNewSessions
TogglePauseNewSessions ==
    /\ CanHandleCommand
    /\ paused' = ~paused
    /\ Handled(Blank("TogglePauseNewSessions"), <<PauseState(~paused)>>)
    /\ UNCHANGED <<runtime_sell, runtime_strategy, channels, loop_running, store, in_flight_auto_sells, tasks>>

\* A balance update that takes the event's token program even when the
\* event has none.
BalanceUpdate_OverwritesProgram(e) ==
    LET parsed_mint == Pubkey_from_str(e.mint)
    IN
    /\ CanHandle
    /\ UNCHANGED <<paused, runtime_sell, runtime_strategy, channels, loop_running, tasks,
                   in_flight_auto_sells, market_contexts>>
    /\ IF IsNone(parsed_mint)
       THEN /\ Handled(e, <<>>)
            /\ UNCHANGED <<position_snapshots, stream_states>>
       ELSE LET mint == Unwrap(parsed_mint)
                entry == IF IsSome(position_snapshots[mint])
                         THEN Unwrap(position_snapshots[mint])
                         ELSE PositionSnapshot(0, None, 0, None)
            IN
            /\ position_snapshots' =
                   [position_snapshots EXCEPT
                       ![mint] = Some([entry EXCEPT !.token_program = e.token_program,
                                                    !.tokens = e.tokens])]
            /\ stream_states' =
                   IF IsSome(stream_states[mint])
                   THEN [stream_states EXCEPT
                            ![mint] = Some([Unwrap(@) EXCEPT
                                               !.position_tokens = Some(e.tokens)])]
                   ELSE stream_states
            /\ Handled(e, <<PositionTokensUpdated(mint, e.tokens)>>)

\* AppEngine::handle_balance_update
BalanceUpdate(e) ==
    LET parsed_mint == Pubkey_from_str(e.mint)
    IN
    /\ CanHandle
    /\ UNCHANGED <<paused, runtime_sell, runtime_strategy, channels, loop_running, tasks, in_flight_auto_sells,
                   market_contexts>>
    /\ IF IsNone(parsed_mint)
       THEN /\ Handled(e, <<>>)
            /\ UNCHANGED <<position_snapshots, stream_states>>
       ELSE LET mint == Unwrap(parsed_mint)
                entry == IF IsSome(position_snapshots[mint])
                         THEN Unwrap(position_snapshots[mint])
                         ELSE PositionSnapshot(0, None, 0, None)
                with_program == IF IsSome(e.token_program)
                                THEN [entry EXCEPT !.token_program = e.token_program]
                                ELSE entry
            IN
            /\ position_snapshots' =
                   [position_snapshots EXCEPT
                       ![mint] = Some([with_program EXCEPT !.tokens = e.tokens])]
            /\ stream_states' =
                   IF IsSome(stream_states[mint])
                   THEN [stream_states EXCEPT
                            ![mint] = Some([Unwrap(@) EXCEPT
                                               !.position_tokens = Some(e.tokens)])]
                   ELSE stream_states
            /\ Handled(e, <<PositionTokensUpdated(mint, e.tokens)>>)

\* AppEngine::handle_position_opened
PositionOpened(e) ==
    LET parsed_mint == Pubkey_from_str(e.mint)
    IN
    /\ CanHandle
    /\ UNCHANGED <<paused, runtime_sell, runtime_strategy, channels, loop_running, tasks, in_flight_auto_sells>>
    /\ IF IsNone(parsed_mint)
       THEN /\ Handled(e, <<>>)
            /\ UNCHANGED store
       ELSE LET mint == Unwrap(parsed_mint)
                upd == apply_market_context_update(mint, e.market_context, market_contexts)
                parsed_context == upd.context
                context_for_state == OrElse(parsed_context, upd.contexts[mint])
                ups == upsert_market_stream_state(stream_states, mint, context_for_state,
                                                  Some(e.tokens))
                parse_error == IF upd.ok THEN <<>>
                               ELSE <<SessionError(mint, Error("market_context", 0, 0))>>
            IN
            /\ market_contexts' = upd.contexts
            /\ stream_states' = ups.states
            /\ position_snapshots' =
                   [position_snapshots EXCEPT
                       ![mint] = Some(PositionSnapshot(e.position_id, e.token_program,
                                                       e.tokens, parsed_context))]
            /\ Handled(e, parse_error \o ups.emitted
                          \o <<MintDetected(mint), PositionTokensUpdated(mint, e.tokens)>>)

\* StreamCommand::UpdateStrategy
UpdateStrategy(strategy, deadline_timeout_sec) ==
    [type |-> "UpdateStrategy", strategy |-> strategy,
     deadline_timeout_sec |-> deadline_timeout_sec]

\* strategy_to_msg: the percentages of the two amounts, without the deadline.
strategy_to_msg(strategy) ==
    [target_profit_pct |-> strategy.target_profit.percent,
     stop_loss_pct |-> strategy.stop_loss.percent]

\* StreamHandle::update_strategy: the command is queued while the stream
\* task holds the receiver; with the receiver dropped the send is an Err,
\* which the caller logs and drops.
update_strategy(queue, update) == IF stream_open THEN Append(queue, update) ELSE queue

\* Settings that are applied only once the stream has taken the update.
ApplySettings_OnlyWhenPushed(e) ==
    LET strategy == Unwrap(e.strategy)
        update == UpdateStrategy(strategy_to_msg(strategy), strategy.deadline_timeout_sec)
    IN
    /\ CanHandleCommand
    /\ runtime_strategy' = IF stream_open THEN strategy ELSE runtime_strategy
    /\ runtime_sell' = IF stream_open THEN Unwrap(e.sell) ELSE runtime_sell
    /\ stream_commands' = update_strategy(stream_commands, update)
    /\ Handled(e, <<>>)
    /\ UNCHANGED <<paused, loop_running, store, in_flight_auto_sells, tasks,
                   stream_open, cmd_rx_open>>

\* AppEngine::handle_user_command, ApplySettings: both runtime configurations
\* are replaced, then the strategy is handed to the stream.
ApplySettings(e) ==
    LET strategy == Unwrap(e.strategy)
        update == UpdateStrategy(strategy_to_msg(strategy), strategy.deadline_timeout_sec)
    IN
    /\ CanHandleCommand
    /\ runtime_strategy' = strategy
    /\ runtime_sell' = Unwrap(e.sell)
    /\ stream_commands' = update_strategy(stream_commands, update)
    /\ Handled(e, <<>>)
    /\ UNCHANGED <<paused, loop_running, store, in_flight_auto_sells, tasks,
                   stream_open, cmd_rx_open>>

\* AppEngine::handle_user_command, Quit: the loop of `run` breaks; spawned
\* tasks are not awaited.
Quit ==
    /\ CanHandleCommand
    /\ loop_running' = FALSE
    /\ Handled(Blank("Quit"), <<>>)
    /\ UNCHANGED <<paused, runtime_sell, runtime_strategy, channels, store, in_flight_auto_sells, tasks>>

\* A loop that breaks when the command channel is closed.
CommandChannelClosed_EndsLoop ==
    /\ loop_running /\ cmd_rx_open
    /\ cmd_rx_open' = FALSE
    /\ loop_running' = FALSE
    /\ UNCHANGED <<paused, runtime_sell, runtime_strategy, stream_open, stream_commands,
                   store, in_flight_auto_sells, tasks, last_event, emitted,
                   events_handled, event_budget>>

\* AppEngine::handle_user_command, None: the command channel is closed and
\* `run` sets cmd_rx to None.
CommandChannelClosed ==
    /\ loop_running /\ cmd_rx_open
    /\ cmd_rx_open' = FALSE
    /\ UNCHANGED <<paused, runtime_sell, runtime_strategy, stream_open, stream_commands,
                   store, in_flight_auto_sells, tasks, dispatcher>>

\* AppEngine::handle_heartbeat
HeartbeatTick ==
    /\ CanHandle
    /\ Handled(Blank("Heartbeat"), <<Heartbeat>>)
    /\ UNCHANGED <<paused, runtime_sell, runtime_strategy, channels, loop_running, store,
                   in_flight_auto_sells, tasks>>

\* AppEngine::handle_stream_event, ConnectionStatus
ConnectionStatus(e) ==
    /\ CanHandle
    /\ Handled(e, <<SolanaWsStatus(e.connected)>>)
    /\ UNCHANGED <<paused, runtime_sell, runtime_strategy, channels, loop_running, store,
                   in_flight_auto_sells, tasks>>

\* The task spawned by StreamClient::connect ends (the session is over): it
\* drops the receiver of the stream commands and the sender of the events.
StreamEnds ==
    /\ stream_open
    /\ stream_open' = FALSE
    /\ UNCHANGED <<paused, runtime_sell, runtime_strategy, cmd_rx_open, stream_commands,
                   store, in_flight_auto_sells, tasks, dispatcher>>

\* `run`: evt_rx.recv() yields None, the sender being dropped and the queue
\* drained, and the loop breaks.
EventChannelClosed ==
    /\ loop_running /\ ~stream_open
    /\ loop_running' = FALSE
    /\ UNCHANGED <<paused, runtime_sell, runtime_strategy, channels, store,
                   in_flight_auto_sells, tasks, last_event, emitted, events_handled,
                   event_budget>>

\* The inference without the RaydiumCpmm arm: such a market sells for SOL.
infer_manual_sell_output_NoCpmmArm(market_context) ==
    IF IsNone(market_context) THEN "SOL"
    ELSE LET context == Unwrap(market_context)
         IN  IF context.market_type \in {"MeteoraDbc", "RaydiumLaunchpad"}
             THEN IF context.quote_mint = Some(usd1_mint) THEN "USD1" ELSE "SOL"
             ELSE "SOL"

\* The output asset of BuildSellTxRequest.
infer_manual_sell_output(market_context) ==
    IF IsNone(market_context) THEN "SOL"
    ELSE LET context == Unwrap(market_context)
         IN  IF context.market_type \in QuoteMarketTypes
             THEN IF context.quote_mint = Some(usd1_mint) THEN "USD1" ELSE "SOL"
             ELSE "SOL"

\* build_manual_sell_request: None for the Err of a zero amount.
build_manual_sell_request(mint, amount_tokens, slippage_bps, market_context) ==
    IF amount_tokens = 0 THEN None
    ELSE Some([mint |-> mint, amount_tokens |-> amount_tokens,
               slippage_bps |-> Some(slippage_bps),
               output |-> Some(infer_manual_sell_output(market_context)),
               market_context |-> market_context])

\* trigger_manual_sell from the reads of the runtime configuration and of
\* the market context to tokio::spawn.
SpawnManualSell(e, snapshot) ==
    /\ Len(tasks) < MaxTasks
    /\ Handled(e, <<>>)
    /\ tasks' = Append(tasks,
           [NewTask("manual", e.mint,
                    [e EXCEPT !.position_id = snapshot.position_id,
                              !.token_program = snapshot.token_program,
                              !.tokens = snapshot.tokens,
                              !.reason = "manual_sell"])
               EXCEPT !.sell_cfg = Some(runtime_sell),
                      !.slippage_bps = runtime_sell.slippage_pad_bps,
                      !.market_context =
                          OrElse(snapshot.market_context, market_contexts[e.mint])])

\* A trigger_manual_sell without the check of the token count.
RequestExitSignal_NoZeroCheck(e) ==
    /\ CanHandleCommand
    /\ UNCHANGED <<paused, runtime_sell, runtime_strategy, channels, loop_running, store, in_flight_auto_sells>>
    /\ IF IsNone(position_snapshots[e.mint])
       THEN /\ Handled(e, <<SessionError(e.mint, Error("manual_no_position", 0, 0))>>)
            /\ UNCHANGED tasks
       ELSE SpawnManualSell(e, Unwrap(position_snapshots[e.mint]))

\* A manual sell that is dropped while new sessions are paused.
RequestExitSignal_GatedByPause(e) ==
    LET mint == e.mint
        snapshot == position_snapshots[mint]
    IN
    /\ CanHandleCommand
    /\ UNCHANGED <<paused, runtime_sell, runtime_strategy, channels, loop_running, store,
                   in_flight_auto_sells>>
    /\ IF paused
       THEN /\ Handled(e, <<>>)
            /\ UNCHANGED tasks
       ELSE IF IsNone(snapshot)
       THEN /\ Handled(e, <<SessionError(mint, Error("manual_no_position", 0, 0))>>)
            /\ UNCHANGED tasks
       ELSE IF Unwrap(snapshot).tokens = 0
       THEN /\ Handled(e, <<SessionError(mint, Error("manual_zero_tokens", 0, 0))>>)
            /\ UNCHANGED tasks
       ELSE SpawnManualSell(e, Unwrap(snapshot))

\* trigger_manual_sell, up to and including tokio::spawn
RequestExitSignal(e) ==
    LET mint == e.mint
        snapshot == position_snapshots[mint]
    IN
    /\ CanHandleCommand
    /\ UNCHANGED <<paused, runtime_sell, runtime_strategy, channels, loop_running, store, in_flight_auto_sells>>
    /\ IF IsNone(snapshot)
       THEN /\ Handled(e, <<SessionError(mint, Error("manual_no_position", 0, 0))>>)
            /\ UNCHANGED tasks
       ELSE IF Unwrap(snapshot).tokens = 0
       THEN /\ Handled(e, <<SessionError(mint, Error("manual_zero_tokens", 0, 0))>>)
            /\ UNCHANGED tasks
       ELSE SpawnManualSell(e, Unwrap(snapshot))

\* ------------------------------------------------- auto-sell executor task
SetTask(i, t) == tasks' = [tasks EXCEPT ![i] = t]

\* A failure reported by the loop and once more by the task.
FailAuto_ReportedTwice(t, error) ==
    [Emit(t, <<SessionError(t.mint, error), SessionError(t.mint, error)>>)
        EXCEPT !.pc = "unregister"]

\* The failure arm of the spawned task: one SessionError, then the registry
\* entry is removed in a step of its own (ExecUnregister).
FailAuto(t, error) ==
    [Emit(t, <<SessionError(t.mint, error)>>) EXCEPT !.pc = "unregister"]

\* The head of the loop of execute_auto_sell_with_refresh: SellAttempt is
\* emitted and the current unsigned transaction goes to sign_unsigned_tx and
\* send_tx.
BeginAttempt(t) ==
    [Emit(t, <<SellAttempt(t.mint, t.attempt, t.slippage_bps)>>)
        EXCEPT !.pc = "sending", !.signed = Append(@, t.unsigned_tx_b64)]

\* The spawned task from its start to the first send: token program
\* resolution (`lookup` is the outcome of the account lookup), the three
\* session notifications, the read of the runtime SellConfig, and the entry
\* into execute_auto_sell_with_refresh.
ExecResolve(i, lookup) ==
    LET t == tasks[i]
        program == resolve_token_program(t.token_program, lookup)
    IN
    /\ t.kind = "auto" /\ t.pc = "resolve"
    /\ IF IsNone(program)
       THEN SetTask(i, FailAuto(t, Error("resolve_token_program", 0, 0)))
       ELSE SetTask(i, BeginAttempt(
               [Emit(t, <<SessionStarted(t.mint, Unwrap(program)),
                          PositionTokensUpdated(t.mint, t.position_tokens),
                          SellScheduled(t.mint, canonical_sell_reason(t.reason))>>)
                   EXCEPT !.sell_cfg = Some(runtime_sell),
                          !.attempt = 1,
                          !.refreshes_used = 0,
                          !.slippage_bps = runtime_sell.slippage_pad_bps]))
    /\ UNCHANGED <<paused, runtime_sell, runtime_strategy, channels, store, in_flight_auto_sells, dispatcher>>

\* A budget check that lets one retry too many through.
RetriesExhausted_OffByOne(t) == t.refreshes_used > Unwrap(t.sell_cfg).max_retries

\* `refreshes_used >= cfg.max_retries`
RetriesExhausted(t) == t.refreshes_used >= Unwrap(t.sell_cfg).max_retries

\* The match on send_result: `outcome` is "Ok" or the error of signing,
\* submission or confirmation; `request_ok` is whether request_exit_signal
\* could hand the command to the stream.
AfterSend(t, outcome, request_ok) ==
    LET cfg == Unwrap(t.sell_cfg)
        bumped == bumped_slippage_bps(t.slippage_bps, t.refreshes_used, cfg)
        retried == [Emit(t, <<SellRetry(t.mint, t.attempt,
                                        classify_sell_retry_phase(outcome))>>)
                       EXCEPT !.slippage_bps = bumped,
                              !.refreshes_used = @ + 1]
    IN
    IF outcome = "Ok"
    THEN [Emit(t, <<SellComplete(t.mint, canonical_sell_reason(t.reason), t.slippage_bps),
                    SessionClosed(t.mint)>>)
             EXCEPT !.pc = "cleanup_snapshot"]
    ELSE IF RetriesExhausted(t)
    THEN FailAuto(t, Error("autosell_failed", t.position_id, t.attempt))
    ELSE IF ~request_ok
    THEN FailAuto(retried, Error("request_sell_refresh", 0, 0))
    ELSE [retried EXCEPT !.pc = "wait_refresh", !.requests = Append(@, bumped)]

SendOutcomes == {"Ok", "SendError", "ConfirmTimeout"}

ExecSendResult(i, outcome, request_ok) ==
    /\ tasks[i].kind = "auto" /\ tasks[i].pc = "sending"
    /\ SetTask(i, AfterSend(tasks[i], outcome, request_ok))
    /\ UNCHANGED <<paused, runtime_sell, runtime_strategy, channels, store, in_flight_auto_sells, dispatcher>>

\* A refresh that starts the next attempt without counting it.
AfterRecv_SameAttempt(t) ==
    LET trimmed == Trim(Head(t.refresh_rx))
        popped == [t EXCEPT !.refresh_rx = Tail(@)]
    IN  IF trimmed = <<>> THEN popped
        ELSE BeginAttempt([popped EXCEPT !.unsigned_tx_b64 = trimmed])

\* A wait that takes whatever payload arrives, untrimmed and unchecked.
AfterRecv_Unchecked(t) ==
    BeginAttempt([t EXCEPT !.refresh_rx = Tail(@),
                           !.unsigned_tx_b64 = Head(t.refresh_rx),
                           !.attempt = @ + 1])

\* One turn of the loop of recv_refreshed_sell_tx with a payload queued: a
\* payload that is empty after trimming is dropped and the wait repeats,
\* any other becomes the unsigned transaction of the next attempt.
AfterRecv(t) ==
    LET payload == Head(t.refresh_rx)
        trimmed == Trim(payload)
        popped == [t EXCEPT !.refresh_rx = Tail(@)]
    IN  IF trimmed = <<>>
        THEN popped
        ELSE BeginAttempt([popped EXCEPT !.unsigned_tx_b64 = trimmed,
                                         !.attempt = @ + 1])

ExecRecvRefresh(i) ==
    /\ tasks[i].kind = "auto" /\ tasks[i].pc = "wait_refresh"
    /\ tasks[i].refresh_rx # <<>>
    /\ SetTask(i, AfterRecv(tasks[i]))
    /\ UNCHANGED <<paused, runtime_sell, runtime_strategy, channels, store, in_flight_auto_sells, dispatcher>>

\* A refresh channel whose sender outlives its registry entry.
SenderAlive_AfterRemoval(i) == TRUE

\* The sender of task i's refresh channel is the registry entry Some(i).
SenderAlive(i) == in_flight_auto_sells[tasks[i].position_id] = Some(i)

\* A refresh wait without the timeout: it ends only when the channel is
\* closed.
ExecRefreshFails_NoTimeout(i) ==
    /\ tasks[i].kind = "auto" /\ tasks[i].pc = "wait_refresh"
    /\ tasks[i].refresh_rx = <<>>
    /\ ~(in_flight_auto_sells[tasks[i].position_id] = Some(i))
    /\ SetTask(i, FailAuto(tasks[i],
                  Error("refresh_channel_closed", tasks[i].position_id, 0)))
    /\ UNCHANGED <<paused, runtime_sell, runtime_strategy, channels, store,
                   in_flight_auto_sells, dispatcher>>

\* recv_refreshed_sell_tx with nothing queued: the channel is closed (its
\* sender was removed from the registry), or the wait of
\* AUTOSELL_REFRESH_TIMEOUT_MS elapses.
ExecRefreshFails(i) ==
    /\ tasks[i].kind = "auto" /\ tasks[i].pc = "wait_refresh"
    /\ tasks[i].refresh_rx = <<>>
    /\ SetTask(i, FailAuto(tasks[i],
                  IF SenderAlive(i)
                  THEN Error("refresh_timeout", tasks[i].position_id, 0)
                  ELSE Error("refresh_channel_closed", tasks[i].position_id, 0)))
    /\ UNCHANGED <<paused, runtime_sell, runtime_strategy, channels, store, in_flight_auto_sells, dispatcher>>

\* The three removals after a successful sell, each under its own lock.
ExecCleanupSnapshot(i) ==
    /\ tasks[i].kind = "auto" /\ tasks[i].pc = "cleanup_snapshot"
    /\ position_snapshots' = [position_snapshots EXCEPT ![tasks[i].mint] = None]
    /\ SetTask(i, [tasks[i] EXCEPT !.pc = "cleanup_context"])
    /\ UNCHANGED <<paused, runtime_sell, runtime_strategy, channels, market_contexts, stream_states,
                   in_flight_auto_sells, dispatcher>>

\* A cleanup that forgets the market context.
ExecCleanupContext_Skipped(i) ==
    /\ tasks[i].kind = "auto" /\ tasks[i].pc = "cleanup_context"
    /\ SetTask(i, [tasks[i] EXCEPT !.pc = "cleanup_state"])
    /\ UNCHANGED <<paused, runtime_sell, runtime_strategy, channels, store, in_flight_auto_sells, dispatcher>>

ExecCleanupContext(i) ==
    /\ tasks[i].kind = "auto" /\ tasks[i].pc = "cleanup_context"
    /\ market_contexts' = [market_contexts EXCEPT ![tasks[i].mint] = None]
    /\ SetTask(i, [tasks[i] EXCEPT !.pc = "cleanup_state"])
    /\ UNCHANGED <<paused, runtime_sell, runtime_strategy, channels, position_snapshots, stream_states,
                   in_flight_auto_sells, dispatcher>>

ExecCleanupState(i) ==
    /\ tasks[i].kind = "auto" /\ tasks[i].pc = "cleanup_state"
    /\ stream_states' = [stream_states EXCEPT ![tasks[i].mint] = None]
    /\ SetTask(i, [tasks[i] EXCEPT !.pc = "unregister"])
    /\ UNCHANGED <<paused, runtime_sell, runtime_strategy, channels, position_snapshots, market_contexts,
                   in_flight_auto_sells, dispatcher>>

\* A task end that clears the registry instead of removing its own key.
ExecUnregister_ClearsRegistry(i) ==
    /\ tasks[i].kind = "auto" /\ tasks[i].pc = "unregister"
    /\ in_flight_auto_sells' = [p \in PositionIds |-> None]
    /\ SetTask(i, [tasks[i] EXCEPT !.pc = "done"])
    /\ UNCHANGED <<paused, runtime_sell, runtime_strategy, channels, store, dispatcher>>

\* A registry removal placed in the Ok arm only.
ExecUnregister_OnlyAfterSuccess(i) ==
    /\ tasks[i].kind = "auto" /\ tasks[i].pc = "unregister"
    /\ in_flight_auto_sells' =
           IF \E k \in 1..Len(tasks[i].log) : tasks[i].log[k].type = "SellComplete"
           THEN [in_flight_auto_sells EXCEPT ![tasks[i].position_id] = None]
           ELSE in_flight_auto_sells
    /\ SetTask(i, [tasks[i] EXCEPT !.pc = "done"])
    /\ UNCHANGED <<paused, runtime_sell, runtime_strategy, channels, store, dispatcher>>

\* in_flight_auto_sells.lock().await.remove(&position_id), the last
\* statement of the spawned task (and of its early return).
ExecUnregister(i) ==
    /\ tasks[i].kind = "auto" /\ tasks[i].pc = "unregister"
    /\ in_flight_auto_sells' = [in_flight_auto_sells EXCEPT ![tasks[i].position_id] = None]
    /\ SetTask(i, [tasks[i] EXCEPT !.pc = "done"])
    /\ UNCHANGED <<paused, runtime_sell, runtime_strategy, channels, store, dispatcher>>

\* ---------------------------------------------------------- manual sell task
\* A failure reported once where it arises and once more by the caller.
FailManual_ReportedTwice(t, error) ==
    [Emit(t, <<SessionError(t.mint, error), SessionError(t.mint, error)>>)
        EXCEPT !.pc = "done"]

FailManual(t, error) == [Emit(t, <<SessionError(t.mint, error)>>) EXCEPT !.pc = "done"]

ManualResolve(i, lookup) ==
    LET t == tasks[i]
        program == resolve_token_program(t.token_program, lookup)
    IN
    /\ t.kind = "manual" /\ t.pc = "resolve"
    /\ IF IsNone(program)
       THEN SetTask(i, FailManual(t, Error("resolve_token_program", 0, 0)))
       ELSE SetTask(i, [Emit(t, <<SessionStarted(t.mint, Unwrap(program)),
                                  PositionTokensUpdated(t.mint, t.position_tokens),
                                  SellScheduled(t.mint, canonical_sell_reason(t.reason)),
                                  SellAttempt(t.mint, 1, t.slippage_bps)>>)
                           EXCEPT !.pc = "build", !.attempt = 1])
    /\ UNCHANGED <<paused, runtime_sell, runtime_strategy, channels, store, in_flight_auto_sells, dispatcher>>

\* execute_manual_sell up to the response of the build-transaction API:
\* `built` is the unsigned transaction, or None when the request fails.
ManualBuild(i, built) ==
    LET t == tasks[i]
        request == build_manual_sell_request(t.mint, t.position_tokens, t.slippage_bps,
                                             t.market_context)
    IN
    /\ t.kind = "manual" /\ t.pc = "build"
    /\ IF IsNone(request)
       THEN SetTask(i, FailManual(t, Error("amount_tokens_zero", 0, 0)))
       ELSE IF IsNone(built)
       THEN SetTask(i, FailManual([t EXCEPT !.build_requests = Append(@, Unwrap(request))],
                                  Error("build_sell_tx", 0, 0)))
       ELSE SetTask(i, [t EXCEPT !.build_requests = Append(@, Unwrap(request)),
                                 !.unsigned_tx_b64 = Unwrap(built),
                                 !.signed = Append(@, Unwrap(built)),
                                 !.pc = "sending"])
    /\ UNCHANGED <<paused, runtime_sell, runtime_strategy, channels, store, in_flight_auto_sells, dispatcher>>

\* A manual sell that clears the session store on success, as the
\* automatic path does.
ManualSendResult_ClearsStore(i, outcome) ==
    LET t == tasks[i]
    IN
    /\ t.kind = "manual" /\ t.pc = "sending"
    /\ IF outcome = "Ok"
       THEN /\ SetTask(i, [Emit(t, <<SellComplete(t.mint, canonical_sell_reason(t.reason),
                                                  t.slippage_bps),
                                     SessionClosed(t.mint)>>)
                              EXCEPT !.pc = "done"])
            /\ position_snapshots' = [position_snapshots EXCEPT ![t.mint] = None]
            /\ market_contexts' = [market_contexts EXCEPT ![t.mint] = None]
            /\ stream_states' = [stream_states EXCEPT ![t.mint] = None]
       ELSE /\ SetTask(i, FailManual(t, Error(outcome, 0, 0)))
            /\ UNCHANGED store
    /\ UNCHANGED <<paused, runtime_sell, runtime_strategy, channels, in_flight_auto_sells, dispatcher>>

ManualSendResult(i, outcome) ==
    LET t == tasks[i]
    IN
    /\ t.kind = "manual" /\ t.pc = "sending"
    /\ IF outcome = "Ok"
       THEN SetTask(i, [Emit(t, <<SellComplete(t.mint, canonical_sell_reason(t.reason),
                                               t.slippage_bps),
                                  SessionClosed(t.mint)>>)
                           EXCEPT !.pc = "done"])
       ELSE SetTask(i, FailManual(t, Error(outcome, 0, 0)))
    /\ UNCHANGED <<paused, runtime_sell, runtime_strategy, channels, store, in_flight_auto_sells, dispatcher>>

\* --------------------------------------------------------- event inputs
\* The usual exit signal for a position: a parseable token program hint,
\* reason "profit", no market context, a plain payload.
UsualSignal(p, m) ==
    [Blank("ExitSignalWithTx") EXCEPT !.position_id = p, !.mint = m,
        !.token_program = Some("TokenProgram"), !.tokens = 7, !.reason = "profit",
        !.unsigned_tx_b64 = TxA]

\* Exit signals: the usual one for both positions of MintA, the signals for
\* position 1 that differ from it in the market context or in the payload,
\* and one signal whose mint does not parse.
ExitSignalEvents ==
    {UsualSignal(1, "MintA"), UsualSignal(2, "MintA"),
     UsualSignal(1, "not-a-pubkey"),
     [UsualSignal(1, "MintA") EXCEPT !.market_context = Some(MsgDbcUsd1)],
     [UsualSignal(1, "MintA") EXCEPT !.unsigned_tx_b64 = TxBPadded],
     [UsualSignal(1, "MintA") EXCEPT !.unsigned_tx_b64 = TxBlank]}

PositionClosedEvents ==
    { [Blank("PositionClosed") EXCEPT !.position_id = p, !.mint = "MintA",
          !.reason = "closed"] : p \in PositionIds }

BalanceUpdateEvents ==
    { [Blank("BalanceUpdate") EXCEPT !.mint = m, !.token_program = h, !.tokens = n]
      : m \in MintStrings, h \in {None, Some("TokenProgram")}, n \in TokenAmounts }

PositionOpenedEvents ==
    { [Blank("PositionOpened") EXCEPT !.position_id = p, !.mint = m,
          !.token_program = Some("TokenProgram"), !.tokens = 7, !.market_context = c]
      : p \in PositionIds, m \in MintStrings, c \in MarketContextMsgs }

ApplySettingsCommands ==
    { [Blank("ApplySettings") EXCEPT !.sell = Some(c), !.strategy = Some(g)]
      : c \in SellConfigs, g \in StrategyConfigs }

RequestExitSignalCommands ==
    { [Blank("RequestExitSignal") EXCEPT !.mint = m] : m \in Mints }

\* -------------------------------------------------------------- behaviour
NoMints == [m \in Mints |-> None]

Init ==
    /\ paused = FALSE
    /\ runtime_sell = SellConfigDefault
    /\ runtime_strategy = StrategyInitial
    /\ stream_open = TRUE
    /\ cmd_rx_open = TRUE
    /\ stream_commands = <<>>
    /\ market_contexts = NoMints
    /\ stream_states = NoMints
    /\ position_snapshots = NoMints
    /\ in_flight_auto_sells = [p \in PositionIds |-> None]
    /\ tasks = <<>>
    /\ loop_running = TRUE
    /\ last_event = Blank("none")
    /\ emitted = <<>>
    /\ events_handled = 0
    /\ event_budget = MaxEvents

Dispatch ==
    \/ \E e \in ExitSignalEvents : ExitSignalWithTx(e)
    \/ \E e \in PositionClosedEvents : PositionClosed(e)
    \/ TogglePauseNewSessions

\* A step of an executor.  A submission succeeds or fails in sending; a
\* failure in confirmation differs only in the phase SellRetry reports.
ExecutorStep ==
    \E i \in TaskIds :
        \/ \E lookup \in {None, Some("TokenProgram")} : ExecResolve(i, lookup)
        \/ \E outcome \in {"Ok", "SendError"}, request_ok \in BOOLEAN :
               ExecSendResult(i, outcome, request_ok)
        \/ ExecRecvRefresh(i)
        \/ ExecRefreshFails(i)
        \/ ExecCleanupSnapshot(i)
        \/ ExecCleanupContext(i)
        \/ ExecCleanupState(i)
        \/ ExecUnregister(i)

ManualStep ==
    \E i \in TaskIds :
        \/ \E lookup \in {None, Some("TokenProgram")} : ManualResolve(i, lookup)
        \/ \E built \in {None, Some(TxA)} : ManualBuild(i, built)
        \/ \E outcome \in SendOutcomes : ManualSendResult(i, outcome)

Next == Dispatch \/ ExecutorStep

Spec == Init /\ [][Next]_vars

\* ------------------------------------------- retry-sequence specification
\* One position whose exit signal keeps arriving and whose every submission
\* fails, under every configuration of RetryConfigs; the dispatcher handles
\* as many signals as one executor needs to run its whole retry budget (the
\* first, and one per retry).
RetryInit ==
    /\ paused = FALSE
    /\ runtime_sell \in RetryConfigs
    /\ runtime_strategy = StrategyInitial
    /\ stream_open = TRUE
    /\ cmd_rx_open = TRUE
    /\ stream_commands = <<>>
    /\ market_contexts = NoMints
    /\ stream_states = NoMints
    /\ position_snapshots = NoMints
    /\ in_flight_auto_sells = [p \in PositionIds |-> None]
    /\ tasks = <<>>
    /\ loop_running = TRUE
    /\ last_event = Blank("none")
    /\ emitted = <<>>
    /\ events_handled = 0
    /\ event_budget = runtime_sell.max_retries + 1

RetryStep ==
    \E i \in TaskIds :
        \/ ExecResolve(i, None)
        \/ ExecSendResult(i, "SendError", TRUE)
        \/ ExecRecvRefresh(i)
        \/ ExecRefreshFails(i)
        \/ ExecUnregister(i)

RetrySignals == {UsualSignal(1, "MintA")}

RetryNext == (\E e \in RetrySignals : ExitSignalWithTx(e)) \/ RetryStep

RetrySpec == RetryInit /\ [][RetryNext]_vars

\* ------------------------------------------------ manual-sell specification
\* Positions are opened and their balances updated by the stream, and the
\* user asks for manual sells; the tasks of trigger_manual_sell run
\* concurrently with the dispatcher.
\* The reason specification: exit signals for one position that differ in
\* the reason string only, each sold at its first attempt.  The reasons are
\* every pattern of canonical_sell_reason, and strings that match none: an
\* unknown word, a pattern in another case, and the empty string.
SignalReasons ==
    {"target", "profit", "target_profit", "stop_loss", "timeout",
     "deadline_timeout", "deadline", "manual", "manual_sell",
     "weird_reason", "Target", ""}

ReasonSignals == {[UsualSignal(1, "MintA") EXCEPT !.reason = r] : r \in SignalReasons}

ReasonStep ==
    \E i \in TaskIds :
        \/ ExecResolve(i, None)
        \/ ExecSendResult(i, "Ok", TRUE)
        \/ ExecCleanupSnapshot(i)
        \/ ExecCleanupContext(i)
        \/ ExecCleanupState(i)
        \/ ExecUnregister(i)

ReasonNext == (\E e \in ReasonSignals : ExitSignalWithTx(e)) \/ ReasonStep

ReasonSpec == Init /\ [][ReasonNext]_vars

\* The output-asset specification: one position of MintA opened and
\* re-opened under every kind of market context, with the stable quote mint
\* and with another one, and manual sells of it that get as far as their
\* build request.
MarketContextMsg(market_type, quote_mint) ==
    [market_type |-> market_type,
     inner |-> Some([pool |-> "Pool", quote_mint |-> quote_mint])]

OutputContextMsgs ==
    {None, Some(MsgPumpFun), Some(MarketContextMsg("PumpSwap", "")),
     Some(MarketContextMsg("MeteoraDammV2", ""))}
    \cup {Some(MarketContextMsg(market_type, quote_mint)) :
              market_type \in QuoteMarketTypes, quote_mint \in {"USD1", "WSOL"}}

OutputPositionOpenedEvents ==
    { [Blank("PositionOpened") EXCEPT !.position_id = 1, !.mint = "MintA",
          !.token_program = Some("TokenProgram"), !.tokens = 7, !.market_context = c]
      : c \in OutputContextMsgs }

OutputCommands == {[Blank("RequestExitSignal") EXCEPT !.mint = "MintA"]}

OutputDispatch ==
    \/ \E e \in OutputPositionOpenedEvents : PositionOpened(e)
    \/ \E e \in OutputCommands : RequestExitSignal(e)

OutputStep ==
    \E i \in TaskIds :
        \/ ManualResolve(i, None)
        \/ ManualBuild(i, Some(TxA))

OutputNext == OutputDispatch \/ OutputStep

OutputSpec == Init /\ [][OutputNext]_vars

\* The position-closed specification: the dispatcher alone, opening,
\* updating and closing positions 1 and 2 of both mints, so that a close
\* meets no snapshot, a snapshot of its own position, a snapshot of the other
\* position, and a snapshot with the sentinel id 0 that a balance update
\* created.
CloseOpenedEvents ==
    { [Blank("PositionOpened") EXCEPT !.position_id = p, !.mint = m,
          !.token_program = Some("TokenProgram"), !.tokens = 7, !.market_context = c]
      : p \in PositionIds, m \in Mints, c \in {None, Some(MsgPumpFun)} }

CloseBalanceEvents ==
    { [Blank("BalanceUpdate") EXCEPT !.mint = m, !.token_program = Some("TokenProgram"),
          !.tokens = 7] : m \in Mints }

CloseClosedEvents ==
    { [Blank("PositionClosed") EXCEPT !.position_id = p, !.mint = m, !.reason = "closed"]
      : p \in PositionIds, m \in MintStrings }

CloseNext ==
    \/ \E e \in CloseOpenedEvents : PositionOpened(e)
    \/ \E e \in CloseBalanceEvents : BalanceUpdate(e)
    \/ \E e \in CloseClosedEvents : PositionClosed(e)

CloseSpec == Init /\ [][CloseNext]_vars

\* The cleanup specification: one position on each mint, sold with or
\* without retries and closed by the server, in the runs where the
\* dispatcher handles no stream event for a mint while an executor that sold
\* that mint is between its first removal from the session store and its end.
Succeeded(t) == \E k \in 1..Len(t.log) : t.log[k].type = "SellComplete"

CleaningUp(mint) ==
    \E i \in TaskIds :
        /\ tasks[i].kind = "auto" /\ tasks[i].mint = mint
        /\ Succeeded(tasks[i])
        /\ tasks[i].pc \in {"cleanup_context", "cleanup_state", "unregister"}

CleanupSignals ==
    {[UsualSignal(1, "MintA") EXCEPT !.market_context = Some(MsgPumpFun)],
     [UsualSignal(2, "MintB") EXCEPT !.market_context = Some(MsgPumpFun)]}

CleanupClosedEvents ==
    { [Blank("PositionClosed") EXCEPT !.position_id = 1, !.mint = "MintA",
          !.reason = "closed"],
      [Blank("PositionClosed") EXCEPT !.position_id = 2, !.mint = "MintB",
          !.reason = "closed"] }

CleanupDispatch ==
    \/ \E e \in CleanupSignals : ~CleaningUp(e.mint) /\ ExitSignalWithTx(e)
    \/ \E e \in CleanupClosedEvents : ~CleaningUp(e.mint) /\ PositionClosed(e)

CleanupStep ==
    \E i \in TaskIds :
        \/ ExecResolve(i, None)
        \/ \E outcome \in {"Ok", "SendError"} : ExecSendResult(i, outcome, TRUE)
        \/ ExecRecvRefresh(i)
        \/ ExecRefreshFails(i)
        \/ ExecCleanupSnapshot(i)
        \/ ExecCleanupContext(i)
        \/ ExecCleanupState(i)
        \/ ExecUnregister(i)

CleanupNext == CleanupDispatch \/ CleanupStep

CleanupSpec == Init /\ [][CleanupNext]_vars

\* The settings specification: the exit signal of one position, whose
\* every submission fails, and ApplySettings commands handled at any point
\* between the steps of its executors.
ConfigDispatch ==
    \/ \E e \in RetrySignals : ExitSignalWithTx(e)
    \/ \E e \in ApplySettingsCommands : ApplySettings(e)

ConfigStep ==
    \E i \in TaskIds :
        \/ ExecResolve(i, None)
        \/ ExecSendResult(i, "SendError", TRUE)
        \/ ExecRecvRefresh(i)
        \/ ExecRefreshFails(i)
        \/ ExecUnregister(i)

ConfigNext == ConfigDispatch \/ ConfigStep

ConfigSpec == Init /\ [][ConfigNext]_vars

\* The loop specification: one position whose submissions fail, the user
\* commands, the heartbeat, and the ends of the command channel and of the
\* stream, in any order.
ConnectionStatusEvents ==
    { [Blank("ConnectionStatus") EXCEPT !.connected = c] : c \in BOOLEAN }

LoopDispatch ==
    \/ \E e \in RetrySignals : ExitSignalWithTx(e)
    \/ \E e \in ConnectionStatusEvents : ConnectionStatus(e)
    \/ \E e \in ApplySettingsCommands : ApplySettings(e)
    \/ TogglePauseNewSessions
    \/ Quit
    \/ HeartbeatTick
    \/ CommandChannelClosed
    \/ StreamEnds
    \/ EventChannelClosed

LoopStep ==
    \E i \in TaskIds :
        \/ ExecResolve(i, None)
        \/ ExecSendResult(i, "SendError", TRUE)
        \/ ExecRecvRefresh(i)
        \/ ExecRefreshFails(i)
        \/ ExecUnregister(i)

LoopNext == LoopDispatch \/ LoopStep

LoopSpec == Init /\ [][LoopNext]_vars

\* The isolation specification: position 1 on MintA and position 2 on
\* MintB, the second announced without a token program hint; automatic and
\* manual sells of both, none of which succeeds.
IsolationSignals ==
    {UsualSignal(1, "MintA"), [UsualSignal(2, "MintB") EXCEPT !.token_program = None]}

IsolationDispatch ==
    \/ \E e \in IsolationSignals : ExitSignalWithTx(e)
    \/ \E e \in RequestExitSignalCommands : RequestExitSignal(e)

IsolationStep ==
    \E i \in TaskIds :
        \/ \E lookup \in {None, Some("TokenProgram")} : ExecResolve(i, lookup)
        \/ \E outcome \in {"SendError", "ConfirmTimeout"}, request_ok \in BOOLEAN :
               ExecSendResult(i, outcome, request_ok)
        \/ ExecRecvRefresh(i)
        \/ ExecRefreshFails(i)
        \/ ExecUnregister(i)
        \/ \E lookup \in {None, Some("TokenProgram")} : ManualResolve(i, lookup)
        \/ \E built \in {None, Some(TxA)} : ManualBuild(i, built)
        \/ \E outcome \in {"SendError", "ConfirmTimeout"} : ManualSendResult(i, outcome)

IsolationNext == IsolationDispatch \/ IsolationStep

IsolationSpec == Init /\ [][IsolationNext]_vars

\* The malformed-input specification: each of the four stream events that
\* carry a mint, for position 1, once with MintA and once with a mint that
\* does not parse, and the exit signal of MintA also without a token program
\* hint and with one that does not parse, around an executor whose account
\* lookup fails or succeeds and whose submissions fail.
MalformedMintEvents ==
    { [UsualSignal(1, "MintA") EXCEPT !.token_program = h] : h \in {None, Some("garbage")} }
    \cup
    UNION { { [Blank("BalanceUpdate") EXCEPT !.mint = m,
                  !.token_program = Some("TokenProgram"), !.tokens = 7],
              [Blank("PositionOpened") EXCEPT !.position_id = 1, !.mint = m,
                  !.token_program = Some("TokenProgram"), !.tokens = 7,
                  !.market_context = Some(MsgPumpFun)],
              [Blank("PositionClosed") EXCEPT !.position_id = 1, !.mint = m,
                  !.reason = "closed"],
              UsualSignal(1, m) }
            : m \in {"MintA", "not-a-pubkey"} }

MalformedNext ==
    \/ \E e \in MalformedMintEvents :
        \/ e.type = "BalanceUpdate" /\ BalanceUpdate(e)
        \/ e.type = "PositionOpened" /\ PositionOpened(e)
        \/ e.type = "PositionClosed" /\ PositionClosed(e)
        \/ e.type = "ExitSignalWithTx" /\ ExitSignalWithTx(e)
    \/ \E i \in TaskIds :
        \/ \E lookup \in {None, Some("Token2022")} : ExecResolve(i, lookup)
        \/ ExecSendResult(i, "SendError", TRUE)
        \/ ExecRecvRefresh(i)
        \/ ExecRefreshFails(i)
        \/ ExecUnregister(i)

MalformedSpec == Init /\ [][MalformedNext]_vars

\* The session-store specification: position 1 of MintA opened, signalled
\* and updated with every kind of market context message (absent, of two
\* market kinds, unparsable), paused and unpaused, with and without a
\* registered executor, and sold by hand, with a token program hint in the
\* snapshot or with the account lookup, which may fail.
StoreEvents ==
    { [Blank("PositionOpened") EXCEPT !.position_id = 1, !.mint = "MintA",
          !.token_program = Some("TokenProgram"), !.tokens = 3, !.market_context = c]
      : c \in MarketContextMsgs }
    \cup { [UsualSignal(1, "MintA") EXCEPT !.market_context = c] : c \in MarketContextMsgs }
    \cup { [Blank("BalanceUpdate") EXCEPT !.mint = "MintA", !.token_program = h,
               !.tokens = n]
           : h \in {None, Some("Token2022")}, n \in {0, 5} }

StoreNext ==
    \/ \E e \in StoreEvents :
        \/ e.type = "PositionOpened" /\ PositionOpened(e)
        \/ e.type = "ExitSignalWithTx" /\ ExitSignalWithTx(e)
        \/ e.type = "BalanceUpdate" /\ BalanceUpdate(e)
    \/ TogglePauseNewSessions
    \/ \E e \in RequestExitSignalCommands : RequestExitSignal(e)
    \/ \E i \in TaskIds : ExecResolve(i, None)
    \/ \E i \in TaskIds, lookup \in {None, Some("Token2022")} : ManualResolve(i, lookup)

StoreSpec == Init /\ [][StoreNext]_vars

\* The termination specification: one position whose exit signal arrives
\* with a transaction or with a blank payload and which may be closed, and
\* executors whose every step returns: the runtime schedules each spawned
\* task again and again (weak fairness of its steps), and the refresh wait
\* ends by its timeout when nothing is queued.
LiveSignals ==
    {UsualSignal(1, "MintA"), [UsualSignal(1, "MintA") EXCEPT !.unsigned_tx_b64 = TxBlank]}

ExecutorRun(i) ==
    /\ i \in DOMAIN tasks
    /\ \/ \E lookup \in {None, Some("TokenProgram")} : ExecResolve(i, lookup)
       \/ \E outcome \in {"Ok", "SendError"}, request_ok \in BOOLEAN :
              ExecSendResult(i, outcome, request_ok)
       \/ ExecRecvRefresh(i)
       \/ ExecRefreshFails(i)
       \/ ExecCleanupSnapshot(i)
       \/ ExecCleanupContext(i)
       \/ ExecCleanupState(i)
       \/ ExecUnregister(i)

LiveNext ==
    \/ \E e \in LiveSignals : ExitSignalWithTx(e)
    \/ \E e \in PositionClosedEvents : PositionClosed(e)
    \/ \E i \in 1..MaxTasks : ExecutorRun(i)

LiveSpec == Init /\ [][LiveNext]_vars /\ \A i \in 1..MaxTasks : WF_vars(ExecutorRun(i))

ManualDispatch ==
    \/ \E e \in RequestExitSignalCommands : RequestExitSignal(e)
    \/ \E e \in BalanceUpdateEvents : BalanceUpdate(e)
    \/ \E e \in PositionOpenedEvents : PositionOpened(e)

ManualNext == ManualDispatch \/ ManualStep

ManualSpec == Init /\ [][ManualNext]_vars


\* ================================================================= claims
\* The step just taken is the dispatcher handling one event of this type;
\* the event is then last_event'.
HandledEvent(type) ==
    /\ events_handled' = events_handled + 1
    /\ last_event'.type = type

\* The event handled by this step carries a mint that parses.
HandledValidMint == IsSome(Pubkey_from_str(last_event'.mint))

AutoTasks == {i \in TaskIds : tasks[i].kind = "auto"}

NoSellNotification(notifications) ==
    \A k \in 1..Len(notifications) :
        notifications[k].type \notin {"SessionStarted", "SellScheduled", "SellAttempt"}

\* C1, as the claim states it: when an ExitSignalWithTx with a valid mint is
\* handled while the engine is not paused and the registry holds an entry for
\* its position, the registry does not change, no task is spawned, and the
\* payload is appended to the refresh queue of the registered executor, no
\* task changing in any other way.
C1_ForwardedToRegisteredExecutor ==
    [][ (/\ HandledEvent("ExitSignalWithTx")
         /\ HandledValidMint
         /\ ~paused
         /\ IsSome(in_flight_auto_sells[last_event'.position_id]))
        => LET i == Unwrap(in_flight_auto_sells[last_event'.position_id])
           IN  /\ in_flight_auto_sells' = in_flight_auto_sells
               /\ tasks' = [tasks EXCEPT
                               ![i].refresh_rx = Append(@, last_event'.unsigned_tx_b64)]
      ]_vars

\* C2, as the claim states it: in every reachable state no two auto-sell
\* executor tasks that have not terminated belong to the same position_id.
C2_OneExecutorPerPosition ==
    \A i, j \in AutoTasks :
        (i # j /\ Running(tasks[i]) /\ Running(tasks[j]))
            => tasks[i].position_id # tasks[j].position_id

\* C3: an ExitSignalWithTx with a valid mint handled while the engine is
\* paused replaces the snapshot of the mint (position id, token program hint
\* and tokens of the signal, and the market context the signal carried, or
\* else the stored one), stores a context the signal carried, spawns no task,
\* leaves every task and the registry as they were, and emits no
\* SessionStarted, SellScheduled or SellAttempt.
C3_PauseGate ==
    [][ (HandledEvent("ExitSignalWithTx") /\ HandledValidMint /\ paused)
        => LET e == last_event'
               mint == Unwrap(Pubkey_from_str(e.mint))
               carried == IF IsSome(e.market_context)
                          THEN market_context_from_msg(Unwrap(e.market_context))
                          ELSE None
               context == IF IsSome(carried) THEN carried ELSE market_contexts[mint]
           IN  /\ position_snapshots'[mint] =
                      Some([position_id |-> e.position_id,
                            token_program |-> e.token_program,
                            tokens |-> e.tokens,
                            market_context |-> context])
               /\ market_contexts'[mint] = context
               /\ tasks' = tasks
               /\ in_flight_auto_sells' = in_flight_auto_sells
               /\ NoSellNotification(emitted')
      ]_vars

\* C3 witness: the last event handled is an exit signal that arrived while
\* the engine was paused, carried a market context, and left its snapshot.
C3_Witness ==
    /\ paused
    /\ last_event.type = "ExitSignalWithTx"
    /\ last_event.market_context = Some(MsgDbcUsd1)
    /\ IsSome(position_snapshots["MintA"])
    /\ Unwrap(position_snapshots["MintA"]).tokens = 7
    /\ IsSome(Unwrap(position_snapshots["MintA"]).market_context)
    /\ tasks = <<>>

\* C4, as the claim states it: toggling pause changes no task and no registry
\* entry, and an ExitSignalWithTx handled while paused for a position whose
\* registered executor is still in its retry loop appends the payload to that
\* executor's refresh queue.
C4_PausedSignalStillDelivered ==
    [][ /\ HandledEvent("TogglePauseNewSessions")
            => (tasks' = tasks /\ in_flight_auto_sells' = in_flight_auto_sells)
        /\ (/\ HandledEvent("ExitSignalWithTx")
            /\ HandledValidMint
            /\ paused
            /\ IsSome(in_flight_auto_sells[last_event'.position_id])
            /\ ReceiverAlive(tasks[Unwrap(in_flight_auto_sells[last_event'.position_id])]))
            => LET i == Unwrap(in_flight_auto_sells[last_event'.position_id])
               IN  /\ in_flight_auto_sells' = in_flight_auto_sells
                   /\ tasks'[i].refresh_rx =
                          Append(tasks[i].refresh_rx, last_event'.unsigned_tx_b64)
      ]_vars


\* What a task has emitted, by type.
OfType(log, type) == SelectSeq(log, LAMBDA n : n.type = type)

Attempts(t) == OfType(t.log, "SellAttempt")

Types(log) == [k \in 1..Len(log) |-> log[k].type]

\* The executors that have read their SellConfig (entered the retry loop).
Executors == {i \in AutoTasks : IsSome(tasks[i].sell_cfg)}

\* C5: an executor emits at most max_retries + 1 SellAttempt and sends at
\* most max_retries RequestExitSignal; one that ended in an error after
\* attempt max_retries + 1 ended with the error that names its position id
\* and max_retries + 1 attempts, which is 3 attempts when max_retries is 2.
C5_RetryBudget ==
    \A i \in Executors :
        LET t == tasks[i]
            max_retries == Unwrap(t.sell_cfg).max_retries
            last == t.log[Len(t.log)]
        IN  /\ Len(Attempts(t)) <= max_retries + 1
            /\ t.attempt <= max_retries + 1
            /\ Len(t.requests) <= max_retries
            /\ (Len(Attempts(t)) = max_retries + 1 /\ last.type = "SessionError")
                   => last = SessionError(t.mint, Error("autosell_failed", t.position_id,
                                                        max_retries + 1))
            /\ (/\ max_retries = 2
                /\ last.type = "SessionError"
                /\ last.error.kind = "autosell_failed")
                   => last.error.attempts = 3

\* C5 witness: an executor with max_retries = 2 whose third attempt failed.
C5_Witness ==
    \E i \in Executors :
        /\ Unwrap(tasks[i].sell_cfg).max_retries = 2
        /\ Len(Attempts(tasks[i])) = 3
        /\ Len(tasks[i].requests) = 2
        /\ tasks[i].log[Len(tasks[i].log)] =
               SessionError(tasks[i].mint,
                            Error("autosell_failed", tasks[i].position_id, 3))

\* The slippage of every SellAttempt of a task, in the order emitted.
Slippages(t) == [k \in 1..Len(Attempts(t)) |-> Attempts(t)[k].slippage_bps]

\* C6: under a configuration with pad 2000, first bump 20, next bump 40 and
\* maximum 2500 the slippages of an executor's SellAttempts never decrease,
\* never exceed 2500, and start 2000, 2020, 2060.
C6_DefaultSlippageSequence ==
    \A i \in Executors :
        LET cfg == Unwrap(tasks[i].sell_cfg)
            s == Slippages(tasks[i])
        IN  (/\ cfg.slippage_pad_bps = 2000
             /\ cfg.slippage_retry_bump_bps_first = 20
             /\ cfg.slippage_retry_bump_bps_next = 40
             /\ cfg.slippage_max_bps = 2500)
            => \A k \in 1..Len(s) :
                   /\ s[k] <= 2500
                   /\ k > 1 => s[k - 1] <= s[k]
                   /\ k = 1 => s[k] = 2000
                   /\ k = 2 => s[k] = 2020
                   /\ k = 3 => s[k] = 2060

\* C6 witness: an executor under that configuration whose bumps reached the
\* maximum and were held there.
C6_Witness ==
    \E i \in Executors :
        LET s == Slippages(tasks[i])
        IN  /\ Unwrap(tasks[i].sell_cfg).slippage_pad_bps = 2000
            /\ Unwrap(tasks[i].sell_cfg).slippage_max_bps = 2500
            /\ Len(s) >= 15
            /\ s[13] = 2460
            /\ s[14] = 2500
            /\ s[15] = 2500

\* C7: attempt 1 is sent with slippage_pad_bps; the slippage of attempt k + 1
\* is min(slippage of attempt k + bump, slippage_max_bps), the bump being
\* slippage_retry_bump_bps_first for the first retry and
\* slippage_retry_bump_bps_next for every later one; refreshes_used is the
\* number of retries made, and the tolerance held after a retry is the
\* bumped one.
C7_SlippageRecurrence ==
    \A i \in Executors :
        LET t == tasks[i]
            cfg == Unwrap(t.sell_cfg)
            s == Slippages(t)
            retries == Len(OfType(t.log, "SellRetry"))
            bump(k) == IF k = 1 THEN cfg.slippage_retry_bump_bps_first
                       ELSE cfg.slippage_retry_bump_bps_next
            next(k) == IF s[k] + bump(k) < cfg.slippage_max_bps
                       THEN s[k] + bump(k) ELSE cfg.slippage_max_bps
        IN  /\ s[1] = cfg.slippage_pad_bps
            /\ \A k \in 1..(Len(s) - 1) : s[k + 1] = next(k)
            /\ t.refreshes_used = retries
            /\ retries \in {Len(s) - 1, Len(s)}
            /\ t.slippage_bps = IF retries = Len(s) THEN next(Len(s)) ELSE s[Len(s)]

\* C7 witness: an executor whose second bump would overflow 16 bits has made
\* its second retry and sent its third attempt.
C7_Witness ==
    \E i \in Executors :
        /\ Unwrap(tasks[i].sell_cfg) = SellConfigSaturating
        /\ Slippages(tasks[i]) = <<65000, 65500, U16Max>>
        /\ tasks[i].refreshes_used = 2

\* C8: an executor whose signal had the reason "profit" and whose first
\* attempt succeeded has emitted SessionStarted, PositionTokensUpdated,
\* SellScheduled with reason "target", SellAttempt with attempt 1,
\* SellComplete and SessionClosed, in that order and nothing else, and its
\* removal of the snapshot leaves no snapshot for the mint.
C8_EndToEndSuccess ==
    [][ \A i \in AutoTasks :
            (/\ tasks[i].pc = "cleanup_snapshot"
             /\ tasks'[i].pc = "cleanup_context"
             /\ tasks[i].reason = "profit"
             /\ tasks[i].attempt = 1)
            => LET t == tasks[i]
               IN  /\ Types(t.log) = <<"SessionStarted", "PositionTokensUpdated",
                                       "SellScheduled", "SellAttempt", "SellComplete",
                                       "SessionClosed">>
                   /\ t.log[3].reason = "target"
                   /\ t.log[4].attempt = 1
                   /\ \A k \in 1..Len(t.log) : t.log[k].mint = t.mint
                   /\ tasks'[i].log = t.log
                   /\ position_snapshots'[t.mint] = None
      ]_vars

\* C8 witness: such an executor has terminated and the snapshot is gone.
C8_Witness ==
    \E i \in AutoTasks :
        /\ tasks[i].pc = "done"
        /\ tasks[i].reason = "profit"
        /\ tasks[i].attempt = 1
        /\ Len(tasks[i].log) = 6
        /\ tasks[i].log[5].type = "SellComplete"
        /\ position_snapshots[tasks[i].mint] = None

\* C9: an executor whose first attempt failed emits SellRetry with attempt
\* 1, has sent RequestExitSignal with pad + first bump (clamped to the
\* maximum) by the time it waits for the refresh, sends attempt 2 with that
\* slippage and a non-empty trimmed payload, and reports that slippage in
\* the SellComplete of a successful attempt 2.
C9_RetryThenSuccess ==
    \A i \in Executors :
        LET t == tasks[i]
            cfg == Unwrap(t.sell_cfg)
            sum == cfg.slippage_pad_bps + cfg.slippage_retry_bump_bps_first
            bumped == IF sum < cfg.slippage_max_bps THEN sum ELSE cfg.slippage_max_bps
        IN  (Len(t.log) >= 5 /\ t.log[5].type = "SellRetry")
            => /\ t.log[5].attempt = 1
               /\ t.pc = "wait_refresh" => Len(t.requests) = t.refreshes_used
               /\ Len(t.requests) >= 1 => t.requests[1] = bumped
               /\ (Len(t.log) >= 6 /\ t.log[6].type = "SellAttempt")
                      => /\ Len(t.requests) >= 1
                         /\ t.log[6] = SellAttempt(t.mint, 2, bumped)
                         /\ t.signed[2] # <<>>
                         /\ t.signed[2] \in {Trim(p) : p \in TxPayloads}
               /\ (Len(t.log) >= 7 /\ t.log[7].type = "SellComplete")
                      => t.log[7].slippage_bps = bumped

\* C9 witness: the second attempt, on a refresh that arrived padded, has
\* succeeded.
C9_Witness ==
    \E i \in Executors :
        /\ Unwrap(tasks[i].sell_cfg) = SellConfigDefault
        /\ Len(tasks[i].log) = 8
        /\ tasks[i].log[5].type = "SellRetry"
        /\ tasks[i].log[6].type = "SellAttempt"
        /\ tasks[i].log[7] = SellComplete(tasks[i].mint, "target", 2020)
        /\ tasks[i].requests = <<2020>>
        /\ tasks[i].signed = <<TxA, <<"B">>>>

\* C10: a RequestExitSignal for a mint that has no snapshot, or whose
\* snapshot holds zero tokens, emits exactly one SessionError for that mint
\* and nothing else, and spawns no task: the tasks, the registry and the
\* session store stay as they were.
C10_ManualSellRefused ==
    [][ (/\ HandledEvent("RequestExitSignal")
         /\ \/ IsNone(position_snapshots[last_event'.mint])
            \/ Unwrap(position_snapshots[last_event'.mint]).tokens = 0)
        => /\ Len(emitted') = 1
           /\ emitted'[1].type = "SessionError"
           /\ emitted'[1].mint = last_event'.mint
           /\ NoSellNotification(emitted')
           /\ tasks' = tasks
           /\ in_flight_auto_sells' = in_flight_auto_sells
           /\ store' = store
      ]_vars

\* C10 witness: the last command was refused for a snapshot of zero tokens.
C10_Witness ==
    /\ last_event.type = "RequestExitSignal"
    /\ IsSome(position_snapshots[last_event.mint])
    /\ Unwrap(position_snapshots[last_event.mint]).tokens = 0
    /\ emitted = <<SessionError(last_event.mint, Error("manual_zero_tokens", 0, 0))>>
    /\ tasks = <<>>


ManualTasks == {i \in TaskIds : tasks[i].kind = "manual"}

\* C11, as the claim states it: every accepted manual sell has emitted
\* exactly one SellAttempt by the time its task ends.
C11_ExactlyOneAttempt ==
    \A i \in ManualTasks :
        tasks[i].pc = "done" => Len(Attempts(tasks[i])) = 1

\* C11, amended: a manual sell emits at most one SellAttempt, with attempt 1
\* and slippage_pad_bps, and exactly one unless the token program could not
\* be resolved; it makes at most one build-transaction request and signs and
\* submits at most once, never emits SellRetry and never sends
\* RequestExitSignal over the stream; a task that ended has emitted either
\* SellComplete and no SessionError, or exactly one SessionError as its last
\* notification.
C11_ManualNoRetry ==
    \A i \in ManualTasks :
        LET t == tasks[i]
            errors == OfType(t.log, "SessionError")
            complete == OfType(t.log, "SellComplete")
        IN  /\ Len(Attempts(t)) <= 1
            /\ \A k \in 1..Len(Attempts(t)) :
                   Attempts(t)[k] =
                       SellAttempt(t.mint, 1, Unwrap(t.sell_cfg).slippage_pad_bps)
            /\ t.pc \in {"build", "sending"} => Len(Attempts(t)) = 1
            /\ (t.pc = "done" /\ Len(Attempts(t)) = 0)
                   => t.log = <<SessionError(t.mint, Error("resolve_token_program", 0, 0))>>
            /\ Len(t.build_requests) <= 1
            /\ Len(t.signed) <= 1
            /\ t.requests = <<>>
            /\ OfType(t.log, "SellRetry") = <<>>
            /\ Len(errors) + Len(complete) <= 1
            /\ t.pc = "done" => Len(errors) + Len(complete) = 1
            /\ Len(errors) = 1 => (t.pc = "done" /\ t.log[Len(t.log)].type = "SessionError")

\* C11 witness: a manual sell built and submitted its transaction once,
\* the submission failed, and the task ended with its one SessionError.
C11_Witness ==
    \E i \in ManualTasks :
        /\ tasks[i].pc = "done"
        /\ Len(tasks[i].build_requests) = 1
        /\ Len(tasks[i].signed) = 1
        /\ Types(tasks[i].log) = <<"SessionStarted", "PositionTokensUpdated",
                                   "SellScheduled", "SellAttempt", "SessionError">>

\* C12: no step of a manual sell, from the command that triggers it to the
\* end of its task, changes the position snapshots, the market contexts, the
\* stream states or the in-flight registry; the step in which it succeeds
\* emits SellComplete and then SessionClosed and nothing else, and leaves the
\* snapshot of its mint in place.
C12_ManualSellFrame ==
    [][ /\ (HandledEvent("RequestExitSignal") \/ events_handled' = events_handled)
            => (store' = store /\ in_flight_auto_sells' = in_flight_auto_sells)
        /\ \A i \in ManualTasks :
               (tasks[i].pc = "sending" /\ tasks'[i].pc = "done"
                    /\ OfType(tasks'[i].log, "SessionError") = <<>>)
               => /\ tasks'[i].log =
                         tasks[i].log \o <<SellComplete(tasks[i].mint, "manual",
                                                        tasks[i].slippage_bps),
                                           SessionClosed(tasks[i].mint)>>
                  /\ IsSome(position_snapshots'[tasks[i].mint])
      ]_vars

\* C12 witness: a manual sell has succeeded and the snapshot, the market
\* context and the stream state of its mint are still there.
C12_Witness ==
    \E i \in ManualTasks :
        /\ tasks[i].pc = "done"
        /\ OfType(tasks[i].log, "SellComplete") # <<>>
        /\ IsSome(position_snapshots[tasks[i].mint])
        /\ IsSome(market_contexts[tasks[i].mint])
        /\ IsSome(stream_states[tasks[i].mint])


\* The mapping of reason strings as the claim lists it; a string that is
\* not listed maps to itself.
C13_Table ==
    {<<"target", "target">>, <<"profit", "target">>, <<"target_profit", "target">>,
     <<"stop_loss", "stop_loss">>,
     <<"timeout", "timeout">>, <<"deadline_timeout", "timeout">>,
     <<"deadline", "timeout">>,
     <<"manual", "manual">>, <<"manual_sell", "manual">>}

C13_Canonical(reason) ==
    IF \E pair \in C13_Table : pair[1] = reason
    THEN (CHOOSE pair \in C13_Table : pair[1] = reason)[2]
    ELSE reason

\* C13: canonical_sell_reason maps each listed reason to its canonical form
\* and every other string to itself, and the reason of every SellScheduled
\* and SellComplete an executor emits is the canonical form of the reason of
\* the signal that started it.
C13_CanonicalReason ==
    /\ \A r \in SignalReasons : canonical_sell_reason(r) = C13_Canonical(r)
    /\ \A i \in AutoTasks :
           \A k \in 1..Len(tasks[i].log) :
               tasks[i].log[k].type \in {"SellScheduled", "SellComplete"}
                   => tasks[i].log[k].reason = C13_Canonical(tasks[i].reason)

\* C13 witness: one executor started by a "deadline" signal has reported
\* SellScheduled and SellComplete with reason "timeout", and another started
\* by a "weird_reason" signal has reported both with "weird_reason".
C13_Witness ==
    \E i, j \in AutoTasks :
        /\ tasks[i].reason = "deadline" /\ tasks[j].reason = "weird_reason"
        /\ \A t \in {tasks[i], tasks[j]} :
               /\ OfType(t.log, "SellScheduled") # <<>>
               /\ OfType(t.log, "SellComplete") # <<>>
        /\ OfType(tasks[i].log, "SellComplete")[1].reason = "timeout"
        /\ OfType(tasks[j].log, "SellComplete")[1].reason = "weird_reason"


\* The output asset the claim gives for a market context message: USD1 for
\* MeteoraDbc, RaydiumLaunchpad and RaydiumCpmm whose quote mint is the USD1
\* mint, SOL for everything else.
C14_Output(msg) ==
    IF IsNone(msg) THEN "SOL"
    ELSE CASE Unwrap(msg).market_type \in {"PumpFun", "PumpSwap", "MeteoraDammV2"} -> "SOL"
           [] Unwrap(msg).market_type \in {"MeteoraDbc", "RaydiumLaunchpad", "RaydiumCpmm"} ->
                  IF Unwrap(Unwrap(msg).inner).quote_mint = "USD1" THEN "USD1" ELSE "SOL"

\* The same for the parsed market context a manual sell carries.
C14_OutputOfContext(market_context) ==
    IF IsNone(market_context) THEN "SOL"
    ELSE CASE Unwrap(market_context).market_type
                  \in {"PumpFun", "PumpSwap", "MeteoraDammV2"} -> "SOL"
           [] Unwrap(market_context).market_type
                  \in {"MeteoraDbc", "RaydiumLaunchpad", "RaydiumCpmm"} ->
                  IF Unwrap(market_context).quote_mint = Some("USD1")
                  THEN "USD1" ELSE "SOL"

\* C14: the output asset of a manual sell is SOL with no market context and
\* for PumpFun, PumpSwap and MeteoraDammV2, and for MeteoraDbc,
\* RaydiumLaunchpad and RaydiumCpmm it is USD1 exactly when the quote mint of
\* the context is the USD1 mint, SOL otherwise.
C14_ManualSellOutput ==
    /\ \A msg \in OutputContextMsgs :
           infer_manual_sell_output(
               IF IsNone(msg) THEN None ELSE market_context_from_msg(Unwrap(msg)))
           = C14_Output(msg)
    /\ \A i \in ManualTasks :
           \A k \in 1..Len(tasks[i].build_requests) :
               tasks[i].build_requests[k].output
                   = Some(C14_OutputOfContext(tasks[i].market_context))

\* C14 witness: a manual sell of a position in a RaydiumCpmm market quoted
\* in USD1 has requested USD1 from the build-transaction API.
C14_Witness ==
    \E i \in ManualTasks :
        /\ Len(tasks[i].build_requests) = 1
        /\ IsSome(tasks[i].market_context)
        /\ Unwrap(tasks[i].market_context).market_type = "RaydiumCpmm"
        /\ Unwrap(tasks[i].market_context).quote_mint = Some(usd1_mint)
        /\ tasks[i].build_requests[1].output = Some("USD1")

\* C15: handling PositionClosed{position_id, mint} with a valid mint removes
\* the snapshot of the mint exactly when there is one and its position id is
\* the event's or the sentinel 0, removes the market context and the stream
\* state of the mint in every case, touches no other mint, and emits
\* SessionClosed for the mint in every case.
C15_PositionClosed ==
    [][ (HandledEvent("PositionClosed") /\ HandledValidMint)
        => LET e == last_event'
               mint == e.mint
               snapshot == position_snapshots[mint]
               matches == /\ IsSome(snapshot)
                          /\ Unwrap(snapshot).position_id \in {e.position_id, 0}
           IN  /\ matches => position_snapshots' = [position_snapshots EXCEPT ![mint] = None]
               /\ ~matches => position_snapshots' = position_snapshots
               /\ market_contexts' = [market_contexts EXCEPT ![mint] = None]
               /\ stream_states' = [stream_states EXCEPT ![mint] = None]
               /\ emitted' = <<SessionClosed(mint)>>
      ]_vars

\* C15 witness: a PositionClosed for one position has just been handled
\* while the snapshot of its mint belonged to the other position: the
\* snapshot is still there, the market context and the stream state are
\* gone, and SessionClosed was emitted.
C15_Witness ==
    /\ last_event.type = "PositionClosed"
    /\ last_event.mint \in Mints
    /\ IsSome(position_snapshots[last_event.mint])
    /\ Unwrap(position_snapshots[last_event.mint]).position_id
           \notin {last_event.position_id, 0}
    /\ IsNone(market_contexts[last_event.mint])
    /\ IsNone(stream_states[last_event.mint])
    /\ emitted = <<SessionClosed(last_event.mint)>>


\* C16: handling PositionClosed{P} with a valid mint leaves the registry
\* without an entry for P and with its other entries as they were, whatever
\* the snapshot of the mint is; and an executor that waits for a refresh with
\* nothing queued after its entry was removed ends with the
\* refresh-channel-closed error: it emits that one SessionError and nothing
\* else, signs nothing more, requests nothing more, and its log never grows
\* again.
C16_ClosedPositionEndsExecutor ==
    [][ /\ (HandledEvent("PositionClosed") /\ HandledValidMint)
            => in_flight_auto_sells' =
                   [in_flight_auto_sells EXCEPT ![last_event'.position_id] = None]
        /\ \A i \in AutoTasks :
               LET t == tasks[i]
                   closed == SessionError(t.mint,
                                 Error("refresh_channel_closed", t.position_id, 0))
               IN  /\ (/\ t.pc = "wait_refresh"
                       /\ t.refresh_rx = <<>>
                       /\ in_flight_auto_sells[t.position_id] # Some(i)
                       /\ tasks'[i] # t)
                      => /\ tasks'[i].log = Append(t.log, closed)
                         /\ tasks'[i].pc = "unregister"
                         /\ tasks'[i].signed = t.signed
                         /\ tasks'[i].requests = t.requests
                   /\ (t.log # <<>> /\ t.log[Len(t.log)] = closed)
                      => /\ tasks'[i].log = t.log
                         /\ tasks'[i].signed = t.signed
                         /\ tasks'[i].requests = t.requests
      ]_vars

\* C16 witness: PositionClosed removed the entry of an executor that had
\* made one attempt and asked for a refresh; the executor has ended, its
\* last notification the refresh-channel-closed error, after that single
\* attempt.
C16_Witness ==
    \E i \in AutoTasks :
        /\ tasks[i].pc = "done"
        /\ Len(Attempts(tasks[i])) = 1
        /\ Len(tasks[i].requests) = 1
        /\ tasks[i].log[Len(tasks[i].log)] =
               SessionError(tasks[i].mint,
                            Error("refresh_channel_closed", tasks[i].position_id, 0))


\* C17: when an executor that sold its position ends, and no stream event
\* for its mint was handled during its cleanup, the session store holds no
\* snapshot, no market context and no stream state for the mint, the registry
\* holds no entry for the position, and the executor has emitted SellComplete
\* and, after it, SessionClosed.
C17_SuccessCleanup ==
    [][ \A i \in AutoTasks :
            (tasks[i].pc = "unregister" /\ tasks'[i].pc = "done" /\ Succeeded(tasks[i]))
            => LET t == tasks'[i]
                   n == Len(t.log)
               IN  /\ IsNone(position_snapshots'[t.mint])
                   /\ IsNone(market_contexts'[t.mint])
                   /\ IsNone(stream_states'[t.mint])
                   /\ IsNone(in_flight_auto_sells'[t.position_id])
                   /\ n >= 2
                   /\ t.log[n - 1].type = "SellComplete"
                   /\ t.log[n] = SessionClosed(t.mint)
      ]_vars

\* C17 witness: an executor has sold MintA after one retry and ended; MintA
\* is gone from the session store and position 1 from the registry, while
\* the snapshot, the market context and the stream state of MintB, whose
\* signal was handled as well, are in place.
C17_Witness ==
    \E i \in AutoTasks :
        /\ tasks[i].pc = "done" /\ Succeeded(tasks[i])
        /\ tasks[i].mint = "MintA"
        /\ Len(Attempts(tasks[i])) = 2
        /\ IsNone(position_snapshots["MintA"])
        /\ IsNone(market_contexts["MintA"])
        /\ IsNone(stream_states["MintA"])
        /\ IsNone(in_flight_auto_sells[1])
        /\ IsSome(position_snapshots["MintB"])
        /\ IsSome(market_contexts["MintB"])
        /\ IsSome(stream_states["MintB"])


Errors(t) == OfType(t.log, "SessionError")

\* C18: the step in which an executor fails emits its only SessionError and
\* leaves the session store as it was; the step in which a failed executor
\* ends leaves the store as it was and the registry without an entry for its
\* position, the SessionError being its last notification; an ended executor
\* does nothing more; an ExitSignalWithTx with a valid mint handled while the
\* engine is not paused and the registry has no entry for its position spawns
\* and registers a new executor that has attempted nothing; and the first
\* SellAttempt of every executor has attempt 1 and slippage_pad_bps.
C18_FailureCleanup ==
    [][ /\ \A i \in AutoTasks :
               LET t == tasks[i]
                   after == tasks'[i]
               IN  /\ Errors(after) # Errors(t)
                      => /\ Len(Errors(after)) = 1
                         /\ after.log[Len(after.log)] = Errors(after)[1]
                         /\ ~Succeeded(after)
                         /\ after.pc = "unregister"
                         /\ store' = store
                   /\ (t.pc = "unregister" /\ after.pc = "done" /\ ~Succeeded(t))
                      => /\ store' = store
                         /\ IsNone(in_flight_auto_sells'[t.position_id])
                         /\ Len(Errors(after)) = 1
                         /\ after.log[Len(after.log)].type = "SessionError"
                   /\ t.pc = "done" => after = t
                   /\ (Attempts(t) = <<>> /\ Attempts(after) # <<>>)
                      => Attempts(after) =
                             <<SellAttempt(t.mint, 1, runtime_sell.slippage_pad_bps)>>
        /\ (/\ HandledEvent("ExitSignalWithTx") /\ HandledValidMint
            /\ ~paused
            /\ IsNone(in_flight_auto_sells[last_event'.position_id]))
           => LET j == Len(tasks) + 1
              IN  /\ Len(tasks') = j
                  /\ in_flight_auto_sells' =
                         [in_flight_auto_sells EXCEPT ![last_event'.position_id] = Some(j)]
                  /\ tasks'[j].kind = "auto"
                  /\ tasks'[j].position_id = last_event'.position_id
                  /\ tasks'[j].attempt = 0
                  /\ tasks'[j].log = <<>>
                  /\ tasks'[j].signed = <<>>
      ]_vars

\* C18 witness: an executor of a position gave up on a refresh timeout after
\* one attempt and ended; the snapshot of its mint is still in the store, and
\* a second executor, spawned for the same position by a later signal, has
\* made its first attempt, attempt 1 at slippage_pad_bps.
C18_Witness ==
    \E i, j \in AutoTasks :
        /\ i < j
        /\ tasks[i].position_id = tasks[j].position_id
        /\ tasks[i].pc = "done"
        /\ Errors(tasks[i]) =
               <<SessionError(tasks[i].mint,
                              Error("refresh_timeout", tasks[i].position_id, 0))>>
        /\ IsSome(position_snapshots[tasks[i].mint])
        /\ in_flight_auto_sells[tasks[j].position_id] = Some(j)
        /\ Attempts(tasks[j]) =
               <<SellAttempt(tasks[j].mint, 1, runtime_sell.slippage_pad_bps)>>


\* What is left of each payload once the whitespace around it is removed.
C19_Trimmed(payload) ==
    CASE payload = TxA -> <<"A">>
      [] payload = TxBPadded -> <<"B">>
      [] payload = TxBlank -> <<>>

\* C19: a step of an executor that waits for a refresh either takes the
\* oldest queued payload or fails.  A payload that is not empty once trimmed
\* becomes, trimmed, the unsigned transaction of the next attempt, which is
\* announced by SellAttempt and signed; a payload that is empty once trimmed
\* is dropped and nothing else changes: no attempt, no retry, no request, and
\* the executor still waits.  A failure is the timeout or the closed channel:
\* one SessionError, no further attempt, signature or RequestExitSignal, and
\* the executor leaves the loop, however many retries it has left.
C19_RefreshWait ==
    [][ \A i \in AutoTasks :
            LET t == tasks[i]
                after == tasks'[i]
            IN  (t.pc = "wait_refresh" /\ events_handled' = events_handled /\ after # t)
                => \/ /\ t.refresh_rx # <<>>
                      /\ C19_Trimmed(Head(t.refresh_rx)) # <<>>
                      /\ after =
                           [t EXCEPT !.refresh_rx = Tail(@),
                                     !.unsigned_tx_b64 = C19_Trimmed(Head(t.refresh_rx)),
                                     !.attempt = @ + 1,
                                     !.pc = "sending",
                                     !.log = Append(@, SellAttempt(t.mint, t.attempt + 1,
                                                                   t.slippage_bps)),
                                     !.signed = Append(@, C19_Trimmed(Head(t.refresh_rx)))]
                   \/ /\ t.refresh_rx # <<>>
                      /\ C19_Trimmed(Head(t.refresh_rx)) = <<>>
                      /\ after = [t EXCEPT !.refresh_rx = Tail(@)]
                   \/ /\ t.refresh_rx = <<>>
                      /\ \E kind \in {"refresh_timeout", "refresh_channel_closed"} :
                             after =
                               [t EXCEPT !.pc = "unregister",
                                         !.log = Append(@, SessionError(t.mint,
                                                     Error(kind, t.position_id, 0)))]
      ]_vars

\* C19 witness: the executor of position 1 failed its first attempt with
\* TxA and asked for a refresh; the second signal handled brought a blank
\* payload, which the executor took from its queue and dropped: it still
\* waits, at attempt 1, with one retry used and one request sent.
C19_Witness ==
    /\ events_handled = 2
    /\ last_event.type = "ExitSignalWithTx"
    /\ last_event.unsigned_tx_b64 = TxBlank
    /\ Len(tasks) = 1
    /\ tasks[1].unsigned_tx_b64 = TxA
    /\ tasks[1].pc = "wait_refresh"
    /\ tasks[1].refresh_rx = <<>>
    /\ tasks[1].attempt = 1
    /\ tasks[1].refreshes_used = 1
    /\ Len(tasks[1].requests) = 1
    /\ Len(Attempts(tasks[1])) = 1


\* C20, as the claim states it: the SellConfig an executor uses is the
\* runtime SellConfig of the moment the ExitSignalWithTx that spawned it was
\* handled, whatever ApplySettings commands are handled afterwards.
C20_ConfigOfSpawnTime ==
    \A i \in Executors : Unwrap(tasks[i].sell_cfg) = tasks[i].spawned_under


\* C21: handling ApplySettings{strategy, sell} makes the two runtime
\* configurations equal to the given values, whether the stream takes the
\* strategy update (it is then queued, with the percentages and the deadline
\* of the new strategy) or refuses it (nothing is queued); either way the
\* loop keeps running and nothing else of the engine changes.
C21_ApplySettings ==
    [][ HandledEvent("ApplySettings")
        => LET e == last_event'
               strategy == Unwrap(e.strategy)
           IN  /\ runtime_strategy' = strategy
               /\ runtime_sell' = Unwrap(e.sell)
               /\ loop_running' /\ cmd_rx_open'
               /\ stream_open
                    => stream_commands' =
                         Append(stream_commands,
                                [type |-> "UpdateStrategy",
                                 strategy |->
                                     [target_profit_pct |-> strategy.target_profit.percent,
                                      stop_loss_pct |-> strategy.stop_loss.percent],
                                 deadline_timeout_sec |-> strategy.deadline_timeout_sec])
               /\ ~stream_open => stream_commands' = stream_commands
               /\ UNCHANGED <<paused, store, in_flight_auto_sells, tasks>>
      ]_vars

\* C21 witness: ApplySettings was handled after the stream had ended: no
\* update was queued, both runtime configurations are the new ones, and the
\* loop is running.
C21_Witness ==
    /\ last_event.type = "ApplySettings"
    /\ ~stream_open
    /\ stream_commands = <<>>
    /\ runtime_strategy = StrategyApplied
    /\ runtime_sell = SellConfigTight
    /\ loop_running


\* C22: a step in which an executor or a manual sell task fails (it emits
\* its SessionError), or in which a failed task ends, leaves the event loop
\* running as it was, the session store as it was, the registry entries of
\* all other positions as they were, and every other task as it was.
C22_ErrorIsolation ==
    [][ \A i \in TaskIds :
            (\/ Errors(tasks'[i]) # Errors(tasks[i])
             \/ /\ tasks[i].pc # "done" /\ tasks'[i].pc = "done"
                /\ ~Succeeded(tasks[i]))
            => /\ loop_running' = loop_running
               /\ store' = store
               /\ \A p \in PositionIds \ {tasks[i].position_id} :
                      in_flight_auto_sells'[p] = in_flight_auto_sells[p]
               /\ \A j \in TaskIds \ {i} : tasks'[j] = tasks[j]
      ]_vars

\* C22 witness: the executor of position 2 failed to resolve its token
\* program and ended, while the executor of position 1 is registered and
\* waits for a refresh, both snapshots are in the store and the loop runs.
C22_Witness ==
    \E i, j \in AutoTasks :
        /\ tasks[i].position_id = 2 /\ tasks[j].position_id = 1
        /\ tasks[i].pc = "done"
        /\ Errors(tasks[i]) =
               <<SessionError("MintB", Error("resolve_token_program", 0, 0))>>
        /\ tasks[j].pc = "wait_refresh"
        /\ in_flight_auto_sells[1] = Some(j)
        /\ IsSome(position_snapshots["MintA"]) /\ IsSome(position_snapshots["MintB"])
        /\ loop_running


C24_ContextParseFailure ==
    [][ LET e == last_event'
            p == e.position_id
        IN
        (/\ events_handled' = events_handled + 1
         /\ e.type \in {"PositionOpened", "ExitSignalWithTx"}
         /\ e.mint \in Pubkeys
         /\ IsSome(e.market_context)
         /\ IsNone(market_context_from_msg(Unwrap(e.market_context))))
        => /\ market_contexts' = market_contexts
           /\ emitted' # <<>>
           /\ Head(emitted') = SessionError(e.mint, Error("market_context", 0, 0))
           /\ stream_states' =
                  upsert_market_stream_state(stream_states, e.mint, market_contexts[e.mint],
                                             Some(e.tokens)).states
           /\ IsSome(position_snapshots'[e.mint])
           /\ Unwrap(position_snapshots'[e.mint]).position_id = p
           /\ Unwrap(position_snapshots'[e.mint]).tokens = e.tokens
           /\ loop_running'
           /\ (e.type = "ExitSignalWithTx" /\ ~paused)
              => IF IsSome(in_flight_auto_sells[p])
                 THEN /\ in_flight_auto_sells' = in_flight_auto_sells
                      /\ tasks' = [tasks EXCEPT ![Unwrap(in_flight_auto_sells[p])] =
                                      ChannelSend(@, e.unsigned_tx_b64)]
                 ELSE /\ Len(tasks') = Len(tasks) + 1
                      /\ in_flight_auto_sells'[p] = Some(Len(tasks'))
                      /\ tasks'[Len(tasks')].pc = "resolve"
      ]_vars

\* C24 witness: an unpaused exit signal with an unparsable context has just
\* been handled for a mint whose PumpFun context was stored earlier; the
\* context is still stored, the error was emitted, the stream state of that
\* context carries the signal's tokens, and an executor is registered.
C24_Witness ==
    /\ last_event.type = "ExitSignalWithTx"
    /\ last_event.market_context = Some(MsgDbcMissing)
    /\ ~paused
    /\ IsSome(market_contexts["MintA"])
    /\ Unwrap(market_contexts["MintA"]).market_type = "PumpFun"
    /\ emitted # <<>>
    /\ Head(emitted).type = "SessionError"
    /\ IsSome(stream_states["MintA"])
    /\ Unwrap(stream_states["MintA"]).position_tokens = Some(7)
    /\ IsSome(in_flight_auto_sells[1])


\* A task suspended in the token-program lookup, in the build request, in
\* signing, submission or confirmation, or in the refresh wait.
Suspended(t) == t.pc \in {"resolve", "build", "sending", "wait_refresh"}

\* C25: while the loop runs and has its command channel, whatever tasks are
\* suspended, the handler of every stream event and user command can run to
\* completion in one step of the dispatcher; the handlers that spawn a task
\* are exempt only when the task list is already full.
C25_LoopNeverBlocks ==
    LET full == Len(tasks) = MaxTasks
    IN
    (/\ loop_running /\ events_handled < event_budget /\ cmd_rx_open
     /\ \E i \in DOMAIN tasks : Suspended(tasks[i]))
    => /\ \A e \in IsolationSignals :
              \/ ENABLED ExitSignalWithTx(e)
              \/ full /\ ~paused /\ IsNone(in_flight_auto_sells[e.position_id])
       /\ \A e \in RequestExitSignalCommands :
              \/ ENABLED RequestExitSignal(e)
              \/ full /\ IsSome(position_snapshots[e.mint])
       /\ \A e \in CleanupClosedEvents : ENABLED PositionClosed(e)
       /\ \A e \in CloseBalanceEvents : ENABLED BalanceUpdate(e)
       /\ \A e \in CloseOpenedEvents : ENABLED PositionOpened(e)
       /\ \A e \in ApplySettingsCommands : ENABLED ApplySettings(e)
       /\ ENABLED TogglePauseNewSessions
       /\ ENABLED Quit

\* C25 witness: the loop can still take an event while one executor waits
\* for a refreshed transaction and a manual sell is in submission, the task
\* list being full and the executor's position registered.
C25_Witness ==
    /\ loop_running /\ events_handled < event_budget /\ cmd_rx_open
    /\ \E i, j \in DOMAIN tasks :
          /\ tasks[i].kind = "auto" /\ tasks[i].pc = "wait_refresh"
          /\ tasks[j].kind = "manual" /\ tasks[j].pc = "sending"
          /\ in_flight_auto_sells[tasks[i].position_id] = Some(i)


\* C26: the loop stops running only in a step that handles Quit or that
\* finds the event channel closed after the stream has ended, and that step
\* leaves every task and the registry as they are, whatever the tasks are
\* doing; the step that closes the command channel leaves the loop running,
\* and a running loop without its command channel can still take a stream
\* event and a heartbeat.
C26_LoopTermination ==
    /\ [][ /\ (loop_running /\ ~loop_running')
              => /\ \/ /\ last_event'.type = "Quit"
                       /\ events_handled' = events_handled + 1
                       /\ cmd_rx_open
                    \/ /\ ~stream_open
                       /\ events_handled' = events_handled
                 /\ tasks' = tasks
                 /\ in_flight_auto_sells' = in_flight_auto_sells
           /\ (cmd_rx_open /\ ~cmd_rx_open') => (loop_running' = loop_running)
         ]_vars
    /\ [](/\ (loop_running /\ ~cmd_rx_open /\ events_handled < event_budget)
             => /\ ENABLED HeartbeatTick
                /\ \A e \in ConnectionStatusEvents : ENABLED ConnectionStatus(e)
                /\ \A e \in RetrySignals :
                       \/ ENABLED ExitSignalWithTx(e)
                       \/ /\ Len(tasks) = MaxTasks /\ ~paused
                          /\ IsNone(in_flight_auto_sells[e.position_id])
          /\ (loop_running /\ cmd_rx_open /\ events_handled < event_budget)
             => ENABLED Quit
          /\ (loop_running /\ ~stream_open) => ENABLED EventChannelClosed)

\* C26 witness: the loop has ended on the closed event channel, not on Quit
\* (the last event it handled is an exit signal), with its command channel
\* closed before that and an executor still in submission.
C26_Witness ==
    /\ ~loop_running
    /\ ~cmd_rx_open
    /\ ~stream_open
    /\ last_event.type = "ExitSignalWithTx"
    /\ \E i \in DOMAIN tasks : tasks[i].pc = "sending"


\* C27: when the dispatcher handles an ExitSignalWithTx with a valid mint,
\* paused or not, with or without a registered executor, the mint's snapshot
\* afterwards is exactly the event's position id, token program and token
\* count with the context parsed from the message, or, when none was parsed,
\* the context stored for the mint before the event.
C27_SnapshotReplaced ==
    [][ LET e == last_event'
            parsed == IF IsSome(e.market_context)
                      THEN market_context_from_msg(Unwrap(e.market_context))
                      ELSE None
        IN
        (/\ events_handled' = events_handled + 1
         /\ e.type = "ExitSignalWithTx"
         /\ e.mint \in Pubkeys)
        => position_snapshots'[e.mint] =
               Some([position_id |-> e.position_id,
                     token_program |-> e.token_program,
                     tokens |-> e.tokens,
                     market_context |-> IF IsSome(parsed) THEN parsed
                                        ELSE market_contexts[e.mint]])
      ]_vars

\* C27 witness: a paused engine with an executor registered for position 1
\* has just handled an exit signal without a market context, and the
\* snapshot carries the signal's fields and the context stored earlier.
C27_Witness ==
    /\ last_event.type = "ExitSignalWithTx"
    /\ last_event.market_context = None
    /\ paused
    /\ IsSome(in_flight_auto_sells[1])
    /\ IsSome(market_contexts["MintA"])
    /\ position_snapshots["MintA"] =
           Some([position_id |-> 1, token_program |-> Some("TokenProgram"), tokens |-> 7,
                 market_context |-> market_contexts["MintA"]])


\* C28: when the dispatcher handles a BalanceUpdate with a valid mint, the
\* mint has a snapshot afterwards with the event's token count; a snapshot
\* that did not exist gets position id 0, no market context and the event's
\* token program; an existing one keeps its position id and market context
\* and takes the event's token program only when the event has one; an
\* existing stream state gets the token count as cached balance and a
\* missing one stays missing; market contexts, registry and tasks are
\* unchanged and the one notification is PositionTokensUpdated.
C28_BalanceUpdate ==
    [][ LET e == last_event'
            old == position_snapshots[e.mint]
            new == position_snapshots'[e.mint]
        IN
        (/\ events_handled' = events_handled + 1
         /\ e.type = "BalanceUpdate"
         /\ e.mint \in Pubkeys)
        => /\ IsSome(new)
           /\ Unwrap(new).tokens = e.tokens
           /\ IF IsNone(old)
              THEN /\ Unwrap(new).position_id = 0
                   /\ Unwrap(new).market_context = None
                   /\ Unwrap(new).token_program = e.token_program
              ELSE /\ Unwrap(new).position_id = Unwrap(old).position_id
                   /\ Unwrap(new).market_context = Unwrap(old).market_context
                   /\ Unwrap(new).token_program =
                          IF IsSome(e.token_program) THEN e.token_program
                          ELSE Unwrap(old).token_program
           /\ \A m \in Mints : m # e.mint => position_snapshots'[m] = position_snapshots[m]
           /\ stream_states' =
                  [m \in Mints |->
                      IF m = e.mint /\ IsSome(stream_states[m])
                      THEN Some([market_type |-> Unwrap(stream_states[m]).market_type,
                                 position_tokens |-> Some(e.tokens)])
                      ELSE stream_states[m]]
           /\ market_contexts' = market_contexts
           /\ in_flight_auto_sells' = in_flight_auto_sells
           /\ tasks' = tasks
           /\ emitted' = <<PositionTokensUpdated(e.mint, e.tokens)>>
      ]_vars

\* C28 witness: a balance update without a token program has just been
\* handled for a mint whose snapshot and stream state existed: the snapshot
\* still has position 1, its token program and its context, and both carry
\* the new token count.
C28_Witness ==
    /\ last_event.type = "BalanceUpdate"
    /\ last_event.token_program = None
    /\ last_event.tokens = 5
    /\ IsSome(position_snapshots["MintA"])
    /\ Unwrap(position_snapshots["MintA"]).position_id = 1
    /\ Unwrap(position_snapshots["MintA"]).token_program = Some("TokenProgram")
    /\ IsSome(Unwrap(position_snapshots["MintA"]).market_context)
    /\ Unwrap(position_snapshots["MintA"]).tokens = 5
    /\ IsSome(stream_states["MintA"])
    /\ Unwrap(stream_states["MintA"]).position_tokens = Some(5)


\* The result the upsert is to have for a mint: the state stored afterwards.
C29_Expected(old, market_context, position_tokens) ==
    LET balance(previous) == IF IsSome(position_tokens) THEN position_tokens ELSE previous
    IN  IF IsSome(market_context)
             /\ (IsNone(old) \/ Unwrap(old).market_type # Unwrap(market_context).market_type)
        THEN Some([market_type |-> Unwrap(market_context).market_type,
                   position_tokens |-> balance(None)])
        ELSE IF IsSome(old)
        THEN Some([market_type |-> Unwrap(old).market_type,
                   position_tokens |-> balance(Unwrap(old).position_tokens)])
        ELSE None

\* C29: the handler of a PositionOpened or ExitSignalWithTx with a valid mint
\* leaves the mint with the stream state the upsert is to produce from the
\* context now stored and the event's token count, and emits that state when
\* there is one; and in every reachable store, for every mint, context or
\* none, and token count or none, the upsert stores a fresh state of the
\* context's kind when the mint has none or one of another kind, keeps the
\* existing state with all its values otherwise, sets the cached balance to
\* the supplied count, touches no other mint, emits the resulting state, and
\* changes and emits nothing when there is neither context nor state.
C29_Upsert ==
    /\ [][ LET e == last_event'
               expected == C29_Expected(stream_states[e.mint], market_contexts'[e.mint],
                                        Some(e.tokens))
           IN
           (/\ events_handled' = events_handled + 1
            /\ e.type \in {"PositionOpened", "ExitSignalWithTx"}
            /\ e.mint \in Pubkeys)
           => /\ stream_states' = [stream_states EXCEPT ![e.mint] = expected]
              /\ IsSome(expected)
                 => \E k \in DOMAIN emitted' :
                        emitted'[k] = SessionStreamState(e.mint, Unwrap(expected))
              /\ IsNone(expected)
                 => \A k \in DOMAIN emitted' : emitted'[k].type # "SessionStreamState"
         ]_vars
    /\ [](\A mint \in Mints, position_tokens \in {None, Some(0), Some(7)} :
          \A market_context \in
                 {None} \cup {market_context_from_msg(Unwrap(m)) : m \in MarketContextMsgs \ {None}} :
             LET result == upsert_market_stream_state(stream_states, mint, market_context,
                                                      position_tokens)
                 expected == C29_Expected(stream_states[mint], market_context, position_tokens)
             IN  /\ result.states = [stream_states EXCEPT ![mint] = expected]
                 /\ result.emitted = IF IsSome(expected)
                                     THEN <<SessionStreamState(mint, Unwrap(expected))>>
                                     ELSE <<>>)

\* C29 witness: a PositionOpened with a MeteoraDbc context has just been
\* handled, not as the first event, and the mint's stream state is a state
\* of that kind that carries the event's token count and was emitted.
C29_Witness ==
    /\ last_event.type = "PositionOpened"
    /\ last_event.market_context = Some(MsgDbcUsd1)
    /\ events_handled >= 2
    /\ stream_states["MintA"] = Some([market_type |-> "MeteoraDbc", position_tokens |-> Some(3)])
    /\ \E k \in DOMAIN emitted :
           emitted[k] = SessionStreamState("MintA", Unwrap(stream_states["MintA"]))


\* C30: an executor that leaves the token-program resolution with a hint
\* that parses has started its session with that very program, whatever the
\* account lookup would have returned; one without a usable hint has either
\* started its session or has emitted exactly one SessionError and nothing
\* else, with nothing signed and nothing requested; and when an executor
\* that failed so ends, it has emitted, signed and requested nothing more and
\* the registry has no entry for its position id.
C30_ResolveFailure ==
    [][ \A i \in DOMAIN tasks :
          LET t == tasks[i]
              after == tasks'[i]
              hint == IF IsSome(t.token_program)
                      THEN Pubkey_from_str(Unwrap(t.token_program))
                      ELSE None
              failed == <<SessionError(t.mint, Error("resolve_token_program", 0, 0))>>
          IN
          /\ (t.kind = "auto" /\ t.pc = "resolve" /\ after.pc # "resolve")
             => IF IsSome(hint)
                THEN /\ after.pc = "sending"
                     /\ after.log[1] = SessionStarted(t.mint, Unwrap(hint))
                ELSE \/ /\ after.pc = "sending"
                        /\ after.log[1].type = "SessionStarted"
                     \/ /\ after.pc = "unregister"
                        /\ after.attempt = 0
                        /\ after.log = failed
                        /\ after.signed = <<>>
                        /\ after.requests = <<>>
                        /\ in_flight_auto_sells' = in_flight_auto_sells
          /\ (t.kind = "auto" /\ t.pc = "unregister" /\ t.attempt = 0 /\ after.pc # "unregister")
             => /\ after.pc = "done"
                /\ after.log = failed
                /\ after.signed = <<>>
                /\ after.requests = <<>>
                /\ in_flight_auto_sells'[t.position_id] = None
      ]_vars

\* C30 witness: an executor spawned with an unparsable hint has ended after
\* a failed lookup, having emitted the one SessionError, and its position
\* has no registry entry.
C30_Witness ==
    \E i \in DOMAIN tasks :
        /\ tasks[i].kind = "auto"
        /\ tasks[i].pc = "done"
        /\ tasks[i].attempt = 0
        /\ tasks[i].token_program = Some("garbage")
        /\ Len(tasks[i].log) = 1
        /\ tasks[i].log[1].type = "SessionError"
        /\ tasks[i].signed = <<>>
        /\ in_flight_auto_sells[tasks[i].position_id] = None


\* C31, as the claim states it: the cleanup of an executor that sold its
\* position removes the mint's snapshot only if that snapshot still belongs
\* to the executor's position; a snapshot that a later event recorded for
\* the mint under another position id is left in place.
C31_CleanupKeepsOtherPosition ==
    [][ \A i \in DOMAIN tasks :
          LET t == tasks[i]
              snapshot == position_snapshots[t.mint]
          IN
          (/\ t.kind = "auto" /\ t.pc = "cleanup_snapshot"
           /\ tasks'[i].pc # "cleanup_snapshot"
           /\ IsSome(snapshot)
           /\ Unwrap(snapshot).position_id # t.position_id)
          => position_snapshots'[t.mint] = snapshot
      ]_vars


\* C32, as the claim states it: the registry entry of an executor leaves the
\* registry only in the step in which that executor terminates or in the
\* handling of a PositionClosed for its position id; in particular the step
\* in which another executor terminates leaves it in place.
C32_EntryRemovedByOwnerOrClose ==
    [][ \A p \in PositionIds :
          (IsSome(in_flight_auto_sells[p]) /\ in_flight_auto_sells'[p] # in_flight_auto_sells[p])
          => LET owner == Unwrap(in_flight_auto_sells[p])
             IN  \/ tasks[owner].pc # "done" /\ tasks'[owner].pc = "done"
                 \/ /\ events_handled' = events_handled + 1
                    /\ last_event'.type = "PositionClosed"
                    /\ last_event'.position_id = p
      ]_vars


\* C33, as the claim states it: when the dispatcher handles an
\* ExitSignalWithTx with a valid mint while unpaused, either a new executor
\* is spawned and registered for the position, or the payload is appended to
\* the refresh channel of the registered executor, which is still in its
\* resolution or its retry loop.
C33_SignalNeverLost ==
    [][ LET e == last_event'
            p == e.position_id
        IN
        (/\ events_handled' = events_handled + 1
         /\ e.type = "ExitSignalWithTx"
         /\ e.mint \in Pubkeys
         /\ ~paused)
        => IF IsNone(in_flight_auto_sells[p])
           THEN /\ Len(tasks') = Len(tasks) + 1
                /\ in_flight_auto_sells'[p] = Some(Len(tasks'))
           ELSE LET owner == Unwrap(in_flight_auto_sells[p])
                IN  /\ tasks[owner].pc \in {"resolve", "sending", "wait_refresh"}
                    /\ tasks'[owner].refresh_rx =
                           Append(tasks[owner].refresh_rx, e.unsigned_tx_b64)
      ]_vars


\* C34, as the claim states it: the payload an executor takes for attempt
\* n+1 was forwarded after its RequestExitSignal for that retry.  The refresh
\* channel is first-in first-out and read by the executor alone, and the
\* first payload that is not blank is the one taken, so this is: in the step
\* in which the executor sends the request and starts to wait, no payload
\* that is not blank is already queued.
C34_RetryUsesRebuiltTx ==
    [][ \A i \in DOMAIN tasks :
          (tasks[i].kind = "auto" /\ tasks[i].pc = "sending" /\ tasks'[i].pc = "wait_refresh")
          => \A k \in DOMAIN tasks'[i].refresh_rx : Trim(tasks'[i].refresh_rx[k]) = <<>>
      ]_vars


\* The tasks that are signing, submitting or confirming a sell of the mint.
Submitting(mint) ==
    {i \in DOMAIN tasks : tasks[i].mint = mint /\ tasks[i].pc = "sending"}

\* C35, as the claim states it: for every mint at most one task, executor or
\* manual sell, is signing, submitting or confirming a transaction.
C35_OneSubmissionPerMint ==
    \A mint \in Mints : Cardinality(Submitting(mint)) <= 1


\* C36, as the claim states it: with the engine paused, every manual sell
\* task that has left the token-program resolution has emitted
\* SessionStarted, SellScheduled with reason "manual" and SellAttempt with
\* attempt 1.
C36_ManualStartsWhilePaused ==
    paused
    => \A i \in ManualTasks :
           tasks[i].pc # "resolve"
           => /\ OfType(tasks[i].log, "SessionStarted") # <<>>
              /\ OfType(tasks[i].log, "SellScheduled") = <<SellScheduled(tasks[i].mint, "manual")>>
              /\ Len(Attempts(tasks[i])) = 1

\* C36, amended: paused or not, a RequestExitSignal for a mint whose snapshot
\* has tokens spawns a manual sell task and leaves the pause flag alone; the
\* task, leaving the resolution, has emitted SessionStarted,
\* PositionTokensUpdated, SellScheduled with reason "manual" and SellAttempt
\* with attempt 1 when the token program was resolved, and one SessionError
\* and nothing else when it was not; an ExitSignalWithTx handled while paused
\* spawns nothing and forwards nothing; and TogglePauseNewSessions inverts
\* the flag, emits PauseState with the new value and changes nothing else.
C36_ManualIgnoresPause ==
    [][ /\ (/\ HandledEvent("RequestExitSignal")
            /\ IsSome(position_snapshots[last_event'.mint])
            /\ Unwrap(position_snapshots[last_event'.mint]).tokens > 0)
           => /\ Len(tasks') = Len(tasks) + 1
              /\ tasks'[Len(tasks')].kind = "manual"
              /\ tasks'[Len(tasks')].pc = "resolve"
              /\ tasks'[Len(tasks')].mint = last_event'.mint
              /\ paused' = paused
        /\ \A i \in DOMAIN tasks :
             (tasks[i].kind = "manual" /\ tasks[i].pc = "resolve" /\ tasks'[i].pc # "resolve")
             => LET t == tasks'[i]
                IN  \/ /\ t.pc = "build"
                       /\ Types(t.log) = <<"SessionStarted", "PositionTokensUpdated",
                                           "SellScheduled", "SellAttempt">>
                       /\ t.log[3] = SellScheduled(t.mint, "manual")
                       /\ t.log[4] = SellAttempt(t.mint, 1, t.slippage_bps)
                    \/ /\ t.pc = "done"
                       /\ resolve_token_program(tasks[i].token_program, None) = None
                       /\ t.log = <<SessionError(t.mint, Error("resolve_token_program", 0, 0))>>
        /\ (HandledEvent("ExitSignalWithTx") /\ paused)
           => /\ tasks' = tasks
              /\ in_flight_auto_sells' = in_flight_auto_sells
        /\ HandledEvent("TogglePauseNewSessions")
           => /\ paused' = ~paused
              /\ emitted' = <<PauseState(paused')>>
              /\ UNCHANGED <<runtime_sell, runtime_strategy, channels, loop_running, store,
                             in_flight_auto_sells, tasks>>
      ]_vars

\* C36 witness: the engine is paused, the last command handled is a
\* RequestExitSignal, and the manual sell task it spawned has resolved its
\* token program and emitted its first attempt.
C36_Witness ==
    /\ paused
    /\ last_event.type = "RequestExitSignal"
    /\ \E i \in ManualTasks :
          /\ tasks[i].pc = "build"
          /\ Len(Attempts(tasks[i])) = 1
          /\ Len(tasks) = i


\* C37: under the fair scheduling of its steps, every spawned executor
\* eventually ends, and from then on the registry does not hold the entry
\* that was created for it.
C37_ExecutorTerminates ==
    \A i \in 1..MaxTasks :
        (i \in DOMAIN tasks)
        ~> [](/\ i \in DOMAIN tasks
              /\ tasks[i].pc = "done"
              /\ in_flight_auto_sells[tasks[i].position_id] # Some(i))

\* C37 witness: an executor has ended in error after its first attempt
\* failed and the wait for the refreshed transaction timed out, and its
\* position has no registry entry.
C37_Witness ==
    \E i \in DOMAIN tasks :
        /\ tasks[i].pc = "done"
        /\ tasks[i].refreshes_used = 1
        /\ tasks[i].attempt = 1
        /\ tasks[i].log[Len(tasks[i].log)] =
               SessionError(tasks[i].mint, Error("refresh_timeout", tasks[i].position_id, 0))
        /\ in_flight_auto_sells[tasks[i].position_id] = None


\* The positions in the log of the notifications of a type.
Positions(log, type) == {k \in DOMAIN log : log[k].type = type}

\* C38: in what an executor has emitted so far, the SellAttempts are numbered
\* 1, 2, ... in order; every SellRetry of attempt n comes after the
\* SellAttempt of n and before that of n+1; SessionStarted and SellScheduled
\* come before the first SellAttempt; there is at most one SellComplete or
\* SessionError, nothing but SessionClosed follows it, and an executor that
\* has ended has emitted exactly one.
C38_NotificationProtocol ==
    \A i \in AutoTasks :
        LET log == tasks[i].log
            attempts == Attempts(tasks[i])
            terminal == Positions(log, "SellComplete") \cup Positions(log, "SessionError")
        IN  /\ \A n \in DOMAIN attempts : attempts[n].attempt = n
            /\ \A r \in Positions(log, "SellRetry") :
                   /\ \E a \in Positions(log, "SellAttempt") :
                          a < r /\ log[a].attempt = log[r].attempt
                   /\ \A a \in Positions(log, "SellAttempt") :
                          log[a].attempt = log[r].attempt + 1 => r < a
            /\ \A a \in Positions(log, "SellAttempt") :
                   /\ \E s \in Positions(log, "SessionStarted") : s < a
                   /\ \E s \in Positions(log, "SellScheduled") : s < a
            /\ Cardinality(terminal) <= 1
            /\ \A e \in terminal :
                   \A k \in DOMAIN log : k > e => log[k].type = "SessionClosed"
            /\ tasks[i].pc = "done" => Cardinality(terminal) = 1

\* C38 witness: an executor has ended after three attempts and two retries,
\* the last attempt having succeeded.
C38_Witness ==
    \E i \in AutoTasks :
        /\ tasks[i].pc = "done"
        /\ Types(tasks[i].log) =
               <<"SessionStarted", "PositionTokensUpdated", "SellScheduled",
                 "SellAttempt", "SellRetry", "SellAttempt", "SellRetry", "SellAttempt",
                 "SellComplete", "SessionClosed">>


\* C39: under every configuration every slippage an executor has sent in a
\* RequestExitSignal is a 16-bit value not above slippage_max_bps, and when
\* slippage_pad_bps is not above slippage_max_bps the slippages of its
\* SellAttempts lie between the two and never decrease; and for values at
\* both ends and in the middle of the 16-bit range the bump is the sum when
\* the sum is below the maximum and the maximum otherwise, 65535 included,
\* and is not below a current value that is within the maximum.
C39_SlippageBounds ==
    /\ \A i \in Executors :
           LET t == tasks[i]
               cfg == Unwrap(t.sell_cfg)
               s == Slippages(t)
           IN  /\ \A k \in DOMAIN t.requests :
                      t.requests[k] \in 0..U16Max /\ t.requests[k] <= cfg.slippage_max_bps
               /\ cfg.slippage_pad_bps <= cfg.slippage_max_bps
                  => \A k \in DOMAIN s :
                         /\ cfg.slippage_pad_bps <= s[k]
                         /\ s[k] <= cfg.slippage_max_bps
                         /\ k > 1 => s[k - 1] <= s[k]
    /\ LET samples == {0, 1, 2500, 65000, U16Max - 1, U16Max}
       IN  \A current \in samples, bump \in samples, max \in samples, used \in {0, 1} :
               LET cfg == [SellConfigDefault EXCEPT !.slippage_retry_bump_bps_first = bump,
                                                    !.slippage_retry_bump_bps_next = bump,
                                                    !.slippage_max_bps = max]
                   bumped == bumped_slippage_bps(current, used, cfg)
               IN  /\ bumped \in 0..U16Max
                   /\ bumped <= max
                   /\ bumped = IF current + bump < max THEN current + bump ELSE max
                   /\ current <= max => current <= bumped

\* C39 witness: an executor whose bumps run into the top of the 16-bit range
\* has requested a refresh at 65500 and one at 65535.
C39_Witness ==
    \E i \in Executors :
        /\ Unwrap(tasks[i].sell_cfg).slippage_pad_bps = 65000
        /\ Len(tasks[i].requests) >= 2
        /\ tasks[i].requests[1] = 65500
        /\ tasks[i].requests[2] = U16Max


\* C40, as the claim states it: whenever no executor is in its success
\* cleanup, the mints that have a stream state are the mints that have a
\* market context.
C40_ContextStatePaired ==
    (\A i \in DOMAIN tasks :
         tasks[i].pc \notin {"cleanup_snapshot", "cleanup_context", "cleanup_state"})
    => {m \in Mints : IsSome(stream_states[m])} = {m \in Mints : IsSome(market_contexts[m])}


====
